---- MODULE Spec2Model ----
(***************************************************************************)
(* Green Genesis python backend: the telemetry ingestion pipeline          *)
(* (SensorService), the broadcast hub (WebSocketManager) and the scheduler *)
(* jobs that publish through it, as one asyncio event loop.                *)
(*                                                                         *)
(* A coroutine runs without interruption until it awaits something the     *)
(* event loop has to wait for; each action below is one such run, from one *)
(* suspension point to the next.  Time is counted in ticks of the wall     *)
(* clock, soil moisture in hundredths.                                     *)
(***************************************************************************)
EXTENDS Integers, Sequences, FiniteSets, TLC

\* ---------------------------------------------------------------- bounds
NumWS == 2          \* websocket handles that may ever connect
MaxCapacity == 2    \* largest history capacity explored
MaxReadings == 3    \* readings accepted in one behaviour without subscribers
MaxEvents == 2      \* readings accepted and jobs executed in one behaviour
MaxJobRuns == 1     \* executions of scheduler jobs in one behaviour
MaxTime == 3        \* last tick of the wall clock
MaxHours == 2       \* largest window asked of get_history
MaxInbound == 2     \* control messages handled in one behaviour
MaxCommands == 2    \* actuator commands sent in one behaviour
MaxStops == 2       \* calls of cleanup in one behaviour
MaxStarts == 3      \* calls of PlantCareScheduler.start in one behaviour
MaxShutdowns == 2   \* calls of PlantCareScheduler.shutdown in one behaviour
MaxRuleReadings == 1    \* readings the alert rules are run on in one behaviour
MaxRuleRuns == 2    \* executions of the alert check in one behaviour
MaxLifecycleEvents == 3 \* readings and health checks under start/shutdown
MaxSchedRuns == 2   \* job executions under the scheduler in one behaviour
MaxFailureRuns == 3 \* job executions around a failing one in one behaviour
MaxFailureEvents == 4   \* readings and health checks around a failing job
MaxWindow == 10     \* readings in the longest window a forecast is asked on
TicksPerHour == 2   \* clock ticks in one hour

WS == 1..NumWS
Tasks ==
    {"reader", "gen", "gen2", "restart", "health", "syshealth", "alert_check",
     "predictive_analysis", "data_cleanup"}

\* --------------------------------------------------- TelemetryData ranges
TempMin == -50
TempMax == 100
HumidityMin == 0
HumidityMax == 100
SoilMin == 0
SoilMax == 100
Co2Min == 0
Co2Max == 5000
LightMin == 0
\* pH in tenths
PhMin == 0
PhMax == 140
NutrientMin == 0

\* ------------------------------------------------------- _check_alerts
AlertTempLow == 15
AlertTempHigh == 35
AlertHumidityLow == 25
AlertHumidityHigh == 85
AlertSoilLow == 20        \* 0.2, in hundredths
AlertSoilHigh == 90       \* 0.9, in hundredths
AlertCo2Low == 300

\* ------------------------------------------------- _predictive_analysis
PredictWindowHours == 24
MinWindow == 10
ForecastHours == 12
InsufficientData == 5
ForecastTempHigh == 30
ForecastTempLow == 15
ForecastSoilLow == 20     \* 0.2, in hundredths
DefaultLight == 500
ForecastCap == 72
MinHistoryHours == 24

\* ---------------------------------------------------- _cleanup_old_data
RetentionDays == 30

\* ------------------------------------- ai_service.py: stress and disease
StressTempLow == 15
StressTempHigh == 30
StressHumidityLow == 30
StressHumidityHigh == 80
StressSoilLow == 20       \* 0.2, in hundredths
StressSoilHigh == 90      \* 0.9, in hundredths
StressCo2Low == 400
StressCo2High == 1500
StressLightLow == 200
FungalHumidity == 70
FungalTemp == 25
StaleHumidity == 75
StaleCo2 == 1200
OverwateredSoil == 80     \* 0.8, in hundredths
MaxIndicators == 6  \* longest stress-indicator list given to the heuristic

\* ------------------------------------------- _generate_simulated_data
SimTempBase == 23
SimTempSpread == 3
SimHumidityBase == 60
SimHumiditySpread == 15
SimSoilBase == 60
SimSoilSpread == 20
SimCo2Base == 800
SimCo2Spread == 200
SimCo2Min == 300
SimCo2Max == 1500
SimLightBase == 450
SimLightSpread == 100
\* pH in tenths
SimPhBase == 65
SimPhSpread == 10
\* nutrient concentration in hundredths: uniform(0.3, 0.9)
SimNutrientBase == 60
SimNutrientSpread == 30

VARIABLES
    \* WebSocketManager
    active_connections,   \* list of registered handles
    connection_data,      \* dict handle -> metadata
    \* the websockets themselves and their endpoint coroutines
    chan,                 \* handle -> "open" | "closed" (sends and receives raise)
    outbox,               \* handle -> messages written to the socket, in order
    ep,                   \* handle -> position of websocket_endpoint
    \* SensorService
    serial_connection,    \* "None" | "open" | "closed"
    is_connected,
    latest_reading,       \* <<>> (None) or <<TelemetryData>>
    reading_history,
    max_history,
    \* PlantCareScheduler
    is_running,
    scheduler,            \* self.scheduler: whether it runs, and its jobs
    calls,                \* calls of start() and of shutdown() so far
    \* coroutines
    pc,                   \* task -> position
    frame,                \* task -> its broadcast call, if one is in flight
    cleanup_pc,           \* position of SensorService.cleanup
    lifespan,             \* position of main.lifespan
    \* wall clock and the last get_history call
    now,
    query,
    \* the last answers of the forecast and of the disease heuristic
    forecast,
    analysis,
    \* history variables of the verification
    accepted,             \* every reading accepted so far and its arrival
                          \* time, in arrival order
    job_runs,             \* scheduler job executions so far
    job_log,              \* what each execution of a logged job did
    budget,               \* readings and job executions this behaviour may see
    max_runs,             \* job executions this behaviour may see
    draws,                \* the values random.uniform takes in this behaviour
    lines,                \* the lines the device sends in this behaviour
    hs_failed,            \* handles whose handshake send raised
    inbound,              \* handle -> control messages handled for it, in order
    \* the device
    stream,               \* the serial stream: "none" | "live" | "eof" | "error"
    discarded,            \* records discarded with a line in the log
    cmd,                  \* send_actuator_command: calls, position, last result
    stops                 \* calls of SensorService.cleanup so far

vars == <<active_connections, connection_data, chan, outbox, ep,
          serial_connection, is_connected, latest_reading, reading_history,
          max_history, is_running, scheduler, calls, pc, frame, cleanup_pc,
          lifespan, now, query,
          accepted, job_runs, job_log, budget, max_runs, draws, lines, hs_failed,
          inbound,
          stream, discarded, cmd, stops, forecast, analysis>>

hubVars == <<active_connections, connection_data, chan, outbox, ep, hs_failed,
             inbound>>
deviceVars == <<stream, discarded, cmd, stops>>
sensorVars == <<serial_connection, is_connected, latest_reading,
                reading_history, max_history, accepted>>

\* ------------------------------------------------------------- sequences
InList(s, x) == \E i \in 1..Len(s) : s[i] = x

SetOf(s) == {s[i] : i \in 1..Len(s)}

\* list.remove(x): drops the first occurrence
ListRemove(s, x) ==
    LET i == CHOOSE k \in 1..Len(s) : s[k] = x /\ \A j \in 1..(k - 1) : s[j] # x
    IN  SubSeq(s, 1, i - 1) \o SubSeq(s, i + 1, Len(s))

\* s[-n:] for n >= 1
LastN(s, n) == IF Len(s) <= n THEN s ELSE SubSeq(s, Len(s) - n + 1, Len(s))

\* ------------------------------------------------------------ datetimes
\* datetime.isoformat(): the whole part, and the fraction only when it is not 0
isoformat(t) ==
    IF t % TicksPerHour = 0 THEN <<t \div TicksPerHour>>
    ELSE <<t \div TicksPerHour, t % TicksPerHour>>

fromisoformat(s) == s[1] * TicksPerHour + (IF Len(s) = 2 THEN s[2] ELSE 0)

timedelta_hours(h) == h * TicksPerHour

\* ------------------------------------------------------------- readings
\* `float(data.get(k)) if data.get(k) else None`: a key left out and a key
\* given as 0 both come out as None
Given(x) == IF x = <<>> \/ x[1] = 0 THEN <<>> ELSE x

\* a variant that validates the four required fields only
ValidTelemetryRequiredOnly(d) ==
    /\ d.temp >= TempMin /\ d.temp <= TempMax
    /\ d.humidity >= HumidityMin /\ d.humidity <= HumidityMax
    /\ d.soil >= SoilMin /\ d.soil <= SoilMax
    /\ d.co2 >= Co2Min /\ d.co2 <= Co2Max

\* Field(..., ge=, le=) of TelemetryData
ValidTelemetry(d) ==
    /\ d.temp >= TempMin /\ d.temp <= TempMax
    /\ d.humidity >= HumidityMin /\ d.humidity <= HumidityMax
    /\ d.soil >= SoilMin /\ d.soil <= SoilMax
    /\ d.co2 >= Co2Min /\ d.co2 <= Co2Max
    /\ \A i \in 1..Len(Given(d.light)) : Given(d.light)[i] >= LightMin
    /\ \A i \in 1..Len(Given(d.ph)) :
           Given(d.ph)[i] >= PhMin /\ Given(d.ph)[i] <= PhMax
    /\ \A i \in 1..Len(Given(d.nutrients)) :
           Given(d.nutrients)[i] >= NutrientMin

TelemetryData(d, n) ==
    [temperature |-> d.temp, humidity |-> d.humidity,
     soil_moisture |-> d.soil, co2_level |-> d.co2,
     light_level |-> Given(d.light), ph_level |-> Given(d.ph),
     nutrient_level |-> Given(d.nutrients), seq |-> n]

\* lines the device can deliver: the four required keys, the optional keys
\* left out
JsonLine(t, h, s, c) ==
    [kind |-> "json", temp |-> t, humidity |-> h, soil |-> s, co2 |-> c,
     light |-> <<>>, ph |-> <<>>, nutrients |-> <<>>]

\* a line that carries the optional keys too: <<>> for a key left out,
\* <<v>> for a key given (pH in tenths, nutrients in hundredths)
FullLine(t, h, s, c, light, ph, nutrients) ==
    [kind |-> "json", temp |-> t, humidity |-> h, soil |-> s, co2 |-> c,
     light |-> light, ph |-> ph, nutrients |-> nutrients]

RawLine(kind) ==
    [kind |-> kind, temp |-> 0, humidity |-> 0, soil |-> 0, co2 |-> 0,
     light |-> <<>>, ph |-> <<>>, nutrients |-> <<>>]

DeviceLines ==
    { JsonLine(22, 60, 60, 800),      \* a valid record
      JsonLine(150, 60, 60, 800),     \* temperature out of range
      JsonLine(22, 60, 150, 800),     \* soil moisture out of range
      JsonLine(22, 60, 60, -1),       \* co2 out of range
      RawLine("garbage"),             \* not JSON
      RawLine("not_object"),          \* JSON, but no object: no .get
      RawLine("not_numeric"),         \* a field float() or int() refuses
      RawLine("bad_utf8") }           \* bytes decode('utf-8') refuses

\* max(lo, min(hi, x))
Clamp(lo, hi, x) == IF x < lo THEN lo ELSE IF x > hi THEN hi ELSE x

\* random.uniform(-1, 1): its two ends and its middle
Draws == {-1, 0, 1}

\* a variant whose temperature varies a hundred times as much
GenerateSimulatedDataWild ==
    { FullLine(SimTempBase + 100 * u * SimTempSpread,
               Clamp(0, 100, SimHumidityBase + u * SimHumiditySpread),
               Clamp(0, 100, SimSoilBase + u * SimSoilSpread),
               Clamp(SimCo2Min, SimCo2Max, SimCo2Base + u * SimCo2Spread),
               <<IF SimLightBase + u * SimLightSpread < 0 THEN 0
                 ELSE SimLightBase + u * SimLightSpread>>,
               <<SimPhBase + u * SimPhSpread>>,
               <<SimNutrientBase + u * SimNutrientSpread>>)
        : u \in draws }

\* _generate_simulated_data: base values with some variation, clamped
_generate_simulated_data ==
    { FullLine(SimTempBase + u * SimTempSpread,
               Clamp(0, 100, SimHumidityBase + u * SimHumiditySpread),
               Clamp(0, 100, SimSoilBase + u * SimSoilSpread),
               Clamp(SimCo2Min, SimCo2Max, SimCo2Base + u * SimCo2Spread),
               <<IF SimLightBase + u * SimLightSpread < 0 THEN 0
                 ELSE SimLightBase + u * SimLightSpread>>,
               <<SimPhBase + u * SimPhSpread>>,
               <<SimNutrientBase + u * SimNutrientSpread>>)
        : u \in draws }

\* json.loads succeeds and TelemetryData(...) validates
Accepts(line) == line.kind = "json" /\ ValidTelemetry(line)

\* a variant that refuses the new reading once the buffer is full
AddToHistoryKeepOldest(hist, telemetry, cap, t) ==
    LET reading == [temperature |-> telemetry.temperature,
                    humidity |-> telemetry.humidity,
                    soil_moisture |-> telemetry.soil_moisture,
                    co2_level |-> telemetry.co2_level,
                    light_level |-> telemetry.light_level,
                    ph_level |-> telemetry.ph_level,
                    nutrient_level |-> telemetry.nutrient_level,
                    seq |-> telemetry.seq,
                    timestamp |-> isoformat(t)]
    IN  IF Len(hist) >= cap THEN hist ELSE Append(hist, reading)

\* a variant that inserts the new reading at the front
AddToHistoryFront(hist, telemetry, cap, t) ==
    LET reading == [temperature |-> telemetry.temperature,
                    humidity |-> telemetry.humidity,
                    soil_moisture |-> telemetry.soil_moisture,
                    co2_level |-> telemetry.co2_level,
                    light_level |-> telemetry.light_level,
                    ph_level |-> telemetry.ph_level,
                    nutrient_level |-> telemetry.nutrient_level,
                    seq |-> telemetry.seq,
                    timestamp |-> isoformat(t)]
        h1 == <<reading>> \o hist
    IN  IF Len(h1) > cap THEN SubSeq(h1, 1, cap) ELSE h1

\* self.reading_history.append(reading), then the slice [-max_history:]
_add_to_history(hist, telemetry, cap, t) ==
    LET reading == [temperature |-> telemetry.temperature,
                    humidity |-> telemetry.humidity,
                    soil_moisture |-> telemetry.soil_moisture,
                    co2_level |-> telemetry.co2_level,
                    light_level |-> telemetry.light_level,
                    ph_level |-> telemetry.ph_level,
                    nutrient_level |-> telemetry.nutrient_level,
                    seq |-> telemetry.seq,
                    timestamp |-> isoformat(t)]
        h1 == Append(hist, reading)
    IN  IF Len(h1) > cap THEN LastN(h1, cap) ELSE h1

get_latest_reading == latest_reading

\* a variant whose window excludes its own boundary
GetHistoryStrict(hist, hours, t) ==
    LET cutoff_time == t - timedelta_hours(hours)
    IN  SelectSeq(hist, LAMBDA reading : fromisoformat(reading.timestamp) > cutoff_time)

get_history(hist, hours, t) ==
    LET cutoff_time == t - timedelta_hours(hours)
    IN  SelectSeq(hist, LAMBDA reading : fromisoformat(reading.timestamp) >= cutoff_time)

\* ------------------------------------------------------------------ hub
Hub == [ac |-> active_connections, cd |-> connection_data]

\* a variant that forgets the metadata of the handle it removes
DisconnectKeepsMetadata(h, w) ==
    IF InList(h.ac, w)
    THEN [ac |-> ListRemove(h.ac, w), cd |-> h.cd]
    ELSE h

disconnect(h, w) ==
    IF InList(h.ac, w)
    THEN [ac |-> ListRemove(h.ac, w),
          cd |-> IF w \in DOMAIN h.cd
                 THEN [x \in (DOMAIN h.cd) \ {w} |-> h.cd[x]]
                 ELSE h.cd]
    ELSE h

get_connection_count == Len(active_connections)

\* messages: type, the reading (telemetry_update) or job execution it comes
\* from, and whether json.dumps can serialise it
Msg(type, n, ser) == [type |-> type, seq |-> n, ser |-> ser]

NoMsg == Msg("none", 0, TRUE)

\* the keys of the dict the code builds for a message of each type: the
\* handshake of connect, the replies of handle_message and
\* handle_subscription, and the events handed to broadcast
Envelope(type) ==
    CASE type = "connection" -> {"type", "message", "timestamp"}
      [] type = "pong" -> {"type"}
      [] type = "subscription_confirmed" -> {"type", "subscription"}
      [] type = "error" -> {"type", "message"}
      [] OTHER -> {"type", "data", "timestamp"}

\* a broadcast call: the message, the position of the list iterator, the
\* handle whose send is awaited, the `disconnected` list; `stable` is the
\* handles registered with a working channel ever since the call began
IdleFrame ==
    [st |-> "idle", msg |-> NoMsg, idx |-> 0, cur |-> 0, disc |-> <<>>,
     stable |-> {}]

NewFrame(msg, h) ==
    [st |-> "run", msg |-> msg, idx |-> 0, cur |-> 0, disc |-> <<>>,
     stable |-> {w \in SetOf(h.ac) : chan[w] = "open"}]

\* connection.send_text(json.dumps(message)) raises before it suspends
SendRaises(msg, w) == ~msg.ser \/ chan[w] = "closed"

\* `for connection in self.active_connections:` from position f.idx of the
\* list iterator up to the next send that suspends, or to the end of the list
RECURSIVE FanOut(_, _, _)
FanOut(f, ac, ob) ==
    IF f.idx >= Len(ac)
    THEN [f |-> f, ob |-> ob, fin |-> TRUE]
    ELSE LET c == ac[f.idx + 1]
             g == [f EXCEPT !.idx = f.idx + 1]
         IN  IF SendRaises(f.msg, c)
             THEN FanOut([g EXCEPT !.disc = Append(@, c)], ac, ob)
             ELSE [f |-> [g EXCEPT !.st = "send", !.cur = c],
                   ob |-> [ob EXCEPT ![c] = Append(@, f.msg)],
                   fin |-> FALSE]

\* `for connection in disconnected: self.disconnect(connection)`
RECURSIVE RemoveDisconnected(_, _)
RemoveDisconnected(h, disc) ==
    IF disc = <<>> THEN h
    ELSE RemoveDisconnected(disconnect(h, Head(disc)), Tail(disc))

\* broadcast, run from frame f until it suspends on a send or returns
broadcast(f, h, ob) ==
    LET r == FanOut(f, h.ac, ob)
    IN  IF r.fin
        THEN [f |-> r.f, hub |-> RemoveDisconnected(h, r.f.disc), ob |-> r.ob,
              fin |-> TRUE]
        ELSE [f |-> r.f, hub |-> h, ob |-> r.ob, fin |-> FALSE]

\* the calls in flight see that the handles in S left the registry or lost
\* their channel
Touch(fr, S) ==
    [t \in Tasks |->
        IF fr[t].st = "idle" \/ S = {} THEN fr[t]
        ELSE [fr[t] EXCEPT !.stable = @ \ S]]

\* ----------------------------------------------------------------- Init
EmptyDict == [w \in {} |-> [connected_at |-> 0, subscriptions |-> <<>>]]

\* no command sent yet
NoCommand ==
    [n |-> 0, st |-> "idle", result |-> "none", error |-> FALSE, written |-> 0]

NoQuery == [hours |-> 0, at |-> 0, asked |-> FALSE, result |-> <<>>]

\* no forecast has been asked for yet; `status` is "ok" with the response
\* in `result`, or the status code of the HTTPException raised
NoForecast ==
    [asked |-> FALSE, historical_data |-> <<>>, hours_ahead |-> 0,
     status |-> "none", result |-> <<>>]

\* no disease probability has been computed yet
NoAnalysis ==
    [asked |-> FALSE, telemetry |-> <<>>, stress_indicators |-> <<>>,
     disease_probability |-> 0]

InitState ==
    /\ active_connections = <<>>
    /\ connection_data = EmptyDict
    /\ chan = [w \in WS |-> "open"]
    /\ outbox = [w \in WS |-> <<>>]
    /\ ep = [w \in WS |-> "new"]
    /\ serial_connection = "None"
    /\ is_connected = FALSE
    /\ latest_reading = <<>>
    /\ reading_history = <<>>
    /\ max_history \in 1..MaxWindow
    /\ is_running = FALSE
    /\ scheduler = [running |-> FALSE, stopping |-> FALSE, jobs |-> <<>>]
    /\ calls = [start |-> 0, shutdown |-> 0]
    /\ pc = [t \in Tasks |->
                IF t \in {"reader", "gen", "gen2"} THEN "none" ELSE "idle"]
    /\ frame = [t \in Tasks |-> IdleFrame]
    /\ cleanup_pc = "idle"
    /\ lifespan = "startup"
    /\ now = 0
    /\ query = NoQuery
    /\ accepted = <<>>
    /\ job_runs = 0
    /\ job_log = <<>>
    /\ hs_failed = {}
    /\ inbound = [w \in WS |-> <<>>]
    /\ stream = "none"
    /\ discarded = 0
    /\ cmd = NoCommand
    /\ stops = 0
    /\ forecast = NoForecast
    /\ analysis = NoAnalysis

Init ==
    /\ InitState
    /\ max_history <= MaxCapacity
    /\ budget = MaxEvents
    /\ draws = {0}
    /\ max_runs = MaxJobRuns
    /\ lines = DeviceLines

InitBuffer ==
    /\ InitState
    /\ max_history <= MaxCapacity
    /\ budget = MaxReadings
    /\ draws = {0}
    /\ max_runs = MaxJobRuns
    /\ lines = DeviceLines

\* ------------------------------------------------- a broadcast call's effect
\* where task t goes on once its broadcast call has returned
AfterBroadcast(t) ==
    CASE t = "reader" -> IF is_connected THEN "readline" ELSE "done"
      [] t = "gen" -> "sleep"
      [] t = "gen2" -> "sleep"
      [] t = "restart" -> "done"
      [] t = "predictive_analysis" ->
            IF /\ frame[t].msg.type = "prediction_update"
               /\ job_log[frame[t].msg.seq].risks
            THEN "risks" ELSE "idle"
      [] OTHER -> "idle"

\* task t has run its broadcast call up to r
Deliver(t, r) ==
    /\ outbox' = r.ob
    /\ active_connections' = r.hub.ac
    /\ connection_data' = r.hub.cd
    /\ IF r.fin
       THEN /\ frame' = Touch([frame EXCEPT ![t] = IdleFrame],
                              SetOf(active_connections) \ SetOf(r.hub.ac))
            /\ pc' = [pc EXCEPT ![t] = AfterBroadcast(t)]
       ELSE /\ frame' = [frame EXCEPT ![t] = r.f]
            /\ pc' = [pc EXCEPT ![t] = "bcast"]

\* the send task t awaits completes, or raises when the channel has closed
SendDone(t) ==
    /\ frame[t].st = "send"
    /\ LET f == frame[t]
           f1 == IF chan[f.cur] = "closed"
                 THEN [f EXCEPT !.st = "run", !.disc = Append(@, f.cur)]
                 ELSE [f EXCEPT !.st = "run"]
       IN  Deliver(t, broadcast(f1, Hub, outbox))
    /\ UNCHANGED <<chan, ep, hs_failed, inbound, sensorVars, is_running, scheduler, calls, cleanup_pc,
                   lifespan, now, query, job_runs, job_log, budget, max_runs, forecast, analysis, draws, lines, deviceVars>>

\* ----------------------------------------------------------- SensorService
\* a behaviour accepts and discards records only while its budget lasts
BudgetLeft == Len(accepted) + job_runs + discarded < budget

\* the arrival log: the reading, when it arrived, which task brought it and
\* whether the device was connected then
Arrival(telemetry, t) ==
    [reading |-> telemetry, at |-> now, by |-> t, connected |-> is_connected]

\* a variant that publishes the reading and leaves the stores for later
ProcessPublishFirst(t, line) ==
    IF Accepts(line)
    THEN LET n == Len(accepted) + 1
             telemetry == TelemetryData(line, n)
             msg == Msg("telemetry_update", n, TRUE)
         IN  /\ BudgetLeft
             /\ UNCHANGED <<latest_reading, reading_history, discarded>>
             /\ accepted' = Append(accepted, Arrival(telemetry, t))
             /\ Deliver(t, broadcast(NewFrame(msg, Hub), Hub, outbox))
    ELSE /\ BudgetLeft
         /\ discarded' = discarded + 1
         /\ pc' = [pc EXCEPT ![t] = AfterBroadcast(t)]
         /\ UNCHANGED <<latest_reading, reading_history, accepted,
                        active_connections, connection_data, outbox, frame>>

\* a variant that stores a record before it validates it
ProcessStoreFirst(t, line) ==
    LET n == Len(accepted) + 1
        telemetry == TelemetryData(line, n)
        msg == Msg("telemetry_update", n, TRUE)
    IN  /\ BudgetLeft
        /\ latest_reading' = <<telemetry>>
        /\ reading_history' =
               _add_to_history(reading_history, telemetry, max_history, now)
        /\ IF Accepts(line)
           THEN /\ accepted' = Append(accepted, Arrival(telemetry, t))
                /\ Deliver(t, broadcast(NewFrame(msg, Hub), Hub, outbox))
                /\ UNCHANGED discarded
           ELSE /\ discarded' = discarded + 1
                /\ pc' = [pc EXCEPT ![t] = AfterBroadcast(t)]
                /\ UNCHANGED <<accepted, active_connections, connection_data,
                               outbox, frame>>

\* latest_reading = telemetry; _add_to_history(telemetry); await broadcast(...);
\* a record json.loads or TelemetryData refuses is logged and dropped
_process_sensor_data(t, line) ==
    IF Accepts(line)
    THEN LET n == Len(accepted) + 1
             telemetry == TelemetryData(line, n)
             msg == Msg("telemetry_update", n, TRUE)
         IN  /\ BudgetLeft
             /\ latest_reading' = <<telemetry>>
             /\ reading_history' =
                    _add_to_history(reading_history, telemetry, max_history, now)
             /\ accepted' = Append(accepted, Arrival(telemetry, t))
             /\ UNCHANGED discarded
             /\ Deliver(t, broadcast(NewFrame(msg, Hub), Hub, outbox))
    ELSE /\ BudgetLeft
         /\ discarded' = discarded + 1
         /\ pc' = [pc EXCEPT ![t] = AfterBroadcast(t)]
         /\ UNCHANGED <<latest_reading, reading_history, accepted,
                        active_connections, connection_data, outbox, frame>>

\* initialize: _connect_to_arduino succeeds or not, then the periodic
\* collection task is created
initialize(ok) ==
    IF ok
    THEN /\ serial_connection' = "open"
         /\ is_connected' = TRUE
         /\ stream' = "live"
         /\ pc' = [pc EXCEPT !["reader"] = "readline", !["gen"] = "sleep"]
    ELSE /\ serial_connection' = serial_connection
         /\ is_connected' = FALSE
         /\ stream' = stream
         /\ pc' = [pc EXCEPT !["gen"] = "sleep"]

\* _read_serial_data: reader.readline() returns a line
ReadLine ==
    /\ pc["reader"] = "readline"
    /\ stream = "live"
    /\ \E line \in lines :
          IF line.kind = "bad_utf8"
          THEN /\ BudgetLeft
               /\ discarded' = discarded + 1
               /\ is_connected' = FALSE
               /\ pc' = [pc EXCEPT !["reader"] = "done"]
               /\ UNCHANGED <<latest_reading, reading_history, accepted,
                              active_connections, connection_data, outbox,
                              frame>>
          ELSE /\ _process_sensor_data("reader", line)
               /\ UNCHANGED is_connected
    /\ UNCHANGED <<chan, ep, hs_failed, inbound, serial_connection, max_history,
                   is_running, scheduler, calls, cleanup_pc, lifespan, now, query, job_runs, job_log,
                   budget, max_runs, forecast, analysis, draws, lines, stream, cmd, stops>>

\* _read_serial_data: reader.readline() raises, the connection is lost
ReadError ==
    /\ pc["reader"] = "readline"
    /\ stream = "live"
    /\ stream' = "error"
    /\ is_connected' = FALSE
    /\ pc' = [pc EXCEPT !["reader"] = "done"]
    /\ UNCHANGED <<hubVars, serial_connection, latest_reading, reading_history,
                   max_history, accepted, is_running, scheduler, calls, frame, cleanup_pc,
                   lifespan, now, query, job_runs, job_log, budget, max_runs, forecast, analysis, draws, lines, discarded, cmd,
                   stops>>

\* the device closes the stream: from now on readline() returns b''
StreamEof ==
    /\ stream = "live"
    /\ stream' = "eof"
    /\ UNCHANGED <<hubVars, sensorVars, is_running, scheduler, calls, pc, frame, cleanup_pc,
                   lifespan, now, query, job_runs, job_log, budget, max_runs, forecast, analysis, draws, lines, discarded, cmd,
                   stops>>

\* _read_serial_data at the end of the stream: `if line:` skips the empty
\* line and `while self.is_connected` ends the loop once the flag is down;
\* while the flag is up the loop spins without changing anything
ReadEof ==
    /\ pc["reader"] = "readline"
    /\ stream = "eof"
    /\ ~is_connected
    /\ pc' = [pc EXCEPT !["reader"] = "done"]
    /\ UNCHANGED <<hubVars, sensorVars, is_running, scheduler, calls, frame, cleanup_pc,
                   lifespan, now, query, job_runs, job_log, budget, max_runs, forecast, analysis, draws, lines, deviceVars>>

\* _periodic_data_collection: the sleep is over and the device is not connected
GenTick ==
    /\ pc["gen"] = "sleep"
    /\ ~is_connected
    /\ \E simulated_data \in _generate_simulated_data :
          _process_sensor_data("gen", simulated_data)
    /\ UNCHANGED <<chan, ep, hs_failed, inbound, serial_connection,
                   is_connected, max_history, is_running, scheduler, calls, cleanup_pc, lifespan,
                   now, query, job_runs, job_log, budget, max_runs, forecast, analysis, draws, lines, stream, cmd, stops>>

\* the collection loop a second initialize() has created, at the same point
GenTick2 ==
    /\ pc["gen2"] = "sleep"
    /\ ~is_connected
    /\ \E simulated_data \in _generate_simulated_data :
          _process_sensor_data("gen2", simulated_data)
    /\ UNCHANGED <<chan, ep, hs_failed, inbound, serial_connection,
                   is_connected, max_history, is_running, scheduler, calls, cleanup_pc, lifespan,
                   now, query, job_runs, job_log, budget, max_runs, forecast, analysis, draws, lines, stream, cmd, stops>>

\* cleanup, up to `await self.serial_connection.wait_closed()`: closing the
\* writer ends the stream
cleanup ==
    /\ stops' = stops + 1
    /\ IF serial_connection # "None"
       THEN /\ serial_connection' = "closed"
            /\ stream' = IF stream = "live" THEN "eof" ELSE stream
            /\ cleanup_pc' = "closing"
            /\ UNCHANGED is_connected
       ELSE /\ is_connected' = FALSE
            /\ UNCHANGED <<serial_connection, stream, cleanup_pc>>

\* cleanup, after wait_closed(); wait_closed() raises the error the
\* connection was lost with, and cleanup with it
CleanupFinish ==
    /\ cleanup_pc = "closing"
    /\ IF stream = "error"
       THEN /\ cleanup_pc' = "raised"
            /\ UNCHANGED is_connected
       ELSE /\ cleanup_pc' = "idle"
            /\ is_connected' = FALSE
    /\ UNCHANGED <<hubVars, serial_connection, latest_reading, reading_history,
                   max_history, accepted, is_running, scheduler, calls, pc, frame, lifespan, now,
                   query, job_runs, job_log, budget, max_runs, forecast, analysis, draws, lines, deviceVars>>

\* a variant that looks at the writer only, not at is_connected
SendActuatorCommandUnchecked(written) ==
    IF serial_connection = "None"
    THEN cmd' = [n |-> cmd.n + 1, st |-> "idle", result |-> "false",
                 error |-> FALSE, written |-> cmd.written]
    ELSE IF written /\ serial_connection = "open"
         THEN cmd' = [n |-> cmd.n + 1, st |-> "drain", result |-> cmd.result,
                      error |-> FALSE, written |-> cmd.written + 1]
         ELSE cmd' = [n |-> cmd.n + 1, st |-> "idle", result |-> "false",
                      error |-> TRUE, written |-> cmd.written]

\* send_actuator_command, up to `await self.serial_connection.drain()`:
\* False at once when not connected; otherwise the write succeeds
\* (`written`) or raises, which is caught and answered with False.  A writer
\* that is closing takes no data.
send_actuator_command(written) ==
    IF ~is_connected \/ serial_connection = "None"
    THEN cmd' = [n |-> cmd.n + 1, st |-> "idle", result |-> "false",
                 error |-> FALSE, written |-> cmd.written]
    ELSE IF written /\ serial_connection = "open"
         THEN cmd' = [n |-> cmd.n + 1, st |-> "drain", result |-> cmd.result,
                      error |-> FALSE, written |-> cmd.written + 1]
         ELSE cmd' = [n |-> cmd.n + 1, st |-> "idle", result |-> "false",
                      error |-> TRUE, written |-> cmd.written]

\* POST /actuators: send_actuator_command(command)
SendCommand ==
    /\ lifespan = "serving"
    /\ cmd.st = "idle"
    /\ cmd.n < MaxCommands
    /\ \E written \in BOOLEAN : send_actuator_command(written)
    /\ UNCHANGED <<hubVars, sensorVars, is_running, scheduler, calls, pc, frame, cleanup_pc,
                   lifespan, now, query, job_runs, job_log, budget, max_runs, forecast, analysis, draws, lines, stream,
                   discarded, stops>>

\* send_actuator_command: drain() returns (True) or raises (False)
CommandDone ==
    /\ cmd.st = "drain"
    /\ \E drained \in BOOLEAN :
          cmd' = [cmd EXCEPT !.st = "idle",
                             !.result = IF drained THEN "true" ELSE "false",
                             !.error = ~drained]
    /\ UNCHANGED <<hubVars, sensorVars, is_running, scheduler, calls, pc, frame, cleanup_pc,
                   lifespan, now, query, job_runs, job_log, budget, max_runs, forecast, analysis, draws, lines, stream,
                   discarded, stops>>

\* a variant of the second initialize() after which the collection loop
\* retries the connection by itself
InitializeReconnecting ==
    /\ lifespan = "serving"
    /\ cleanup_pc # "closing"
    /\ \/ /\ pc["gen2"] = "none"
          /\ pc' = [pc EXCEPT !["gen2"] = "sleep"]
          /\ UNCHANGED <<serial_connection, is_connected, stream>>
       \/ /\ pc["gen2"] = "sleep"
          /\ ~is_connected
          /\ pc["reader"] \in {"none", "done"}
          /\ serial_connection' = "open"
          /\ is_connected' = TRUE
          /\ stream' = "live"
          /\ pc' = [pc EXCEPT !["reader"] = "readline"]
    /\ UNCHANGED <<hubVars, latest_reading, reading_history, max_history,
                   accepted, frame, cleanup_pc, now, query, job_runs, job_log,
                   budget, max_runs, forecast, analysis, draws, lines,
                   discarded, cmd, stops, is_running, scheduler, calls,
                   lifespan>>

\* somebody calls sensor_service.initialize() again while the application
\* serves: _connect_to_arduino succeeds or not, and one more collection task
\* is created whether or not the earlier one still runs.  Two collection
\* tasks are told apart, and a connection is opened again only once the
\* earlier read loop has ended.
Initialize ==
    /\ lifespan = "serving"
    /\ cleanup_pc # "closing"
    /\ pc["gen2"] = "none"
    /\ \E ok \in BOOLEAN :
          IF ok
          THEN /\ pc["reader"] \in {"none", "done"}
               /\ serial_connection' = "open"
               /\ is_connected' = TRUE
               /\ stream' = "live"
               /\ pc' = [pc EXCEPT !["reader"] = "readline",
                                   !["gen2"] = "sleep"]
          ELSE /\ serial_connection' = serial_connection
               /\ is_connected' = FALSE
               /\ stream' = stream
               /\ pc' = [pc EXCEPT !["gen2"] = "sleep"]
    /\ UNCHANGED <<hubVars, latest_reading, reading_history, max_history,
                   accepted, frame, cleanup_pc, now, query, job_runs, job_log,
                   budget, max_runs, forecast, analysis, draws, lines,
                   discarded, cmd, stops, is_running, scheduler, calls,
                   lifespan>>

\* somebody calls sensor_service.cleanup() while the application serves
Stop ==
    /\ lifespan = "serving"
    /\ cleanup_pc # "closing"
    /\ stops < MaxStops
    /\ cleanup
    /\ UNCHANGED <<hubVars, latest_reading, reading_history, max_history,
                   accepted, is_running, scheduler, calls, pc, frame, lifespan, now, query,
                   job_runs, job_log, budget, max_runs, forecast, analysis, draws, lines, discarded, cmd>>

\* ------------------------------------------------------- WebSocketManager
\* a variant that ignores a send that raises
SendPersonalMessageNoCleanup(h, w, raised) == h

\* send_personal_message: a send that raises unregisters the handle
send_personal_message(h, w, raised) == IF raised THEN disconnect(h, w) ELSE h

HandshakeMsg == Msg("connection", 0, TRUE)

\* websocket_endpoint: connect(), up to the handshake send
Connect(w) ==
    /\ lifespan # "startup"
    /\ ep[w] = "new"
    /\ \A v \in WS : v < w => ep[v] # "new"   \* handles are numbered as they arrive
    /\ active_connections' = Append(active_connections, w)
    /\ connection_data' =
           [x \in DOMAIN connection_data \cup {w} |->
               IF x = w THEN [connected_at |-> now, subscriptions |-> <<>>]
               ELSE connection_data[x]]
    /\ outbox' = [outbox EXCEPT ![w] = Append(@, HandshakeMsg)]
    /\ ep' = [ep EXCEPT ![w] = "hs"]
    /\ UNCHANGED <<chan, hs_failed, inbound, frame, sensorVars, is_running, scheduler, calls, pc, cleanup_pc,
                   lifespan, now, query, job_runs, job_log, budget, max_runs, forecast, analysis, draws, lines, deviceVars>>

\* connect(): the handshake send completes or raises; the receive loop starts
HandshakeDone(w) ==
    /\ ep[w] = "hs"
    /\ LET h == send_personal_message(Hub, w, chan[w] = "closed")
       IN  /\ active_connections' = h.ac
           /\ connection_data' = h.cd
           /\ frame' = Touch(frame, SetOf(active_connections) \ SetOf(h.ac))
    /\ hs_failed' = IF chan[w] = "closed" THEN hs_failed \cup {w} ELSE hs_failed
    /\ ep' = [ep EXCEPT ![w] = "recv"]
    /\ UNCHANGED <<chan, outbox, inbound, sensorVars, is_running, scheduler, calls, pc, cleanup_pc,
                   lifespan, now, query, job_runs, job_log, budget, max_runs, forecast, analysis, draws, lines, deviceVars>>

\* the peer goes away: sends and receives on the socket raise from now on
ChannelClose(w) ==
    /\ chan[w] = "open"
    /\ ep[w] \in {"hs", "recv", "reply"}
    /\ chan' = [chan EXCEPT ![w] = "closed"]
    /\ frame' = Touch(frame, {w})
    /\ UNCHANGED <<active_connections, connection_data, outbox, ep, hs_failed, inbound,
                   sensorVars, is_running, scheduler, calls, pc, cleanup_pc, lifespan, now, query,
                   job_runs, job_log, budget, max_runs, forecast, analysis, draws, lines, deviceVars>>

\* websocket_endpoint: receive_text() raises WebSocketDisconnect
EndpointDisconnect(w) ==
    /\ ep[w] = "recv"
    /\ chan[w] = "closed"
    /\ LET h == disconnect(Hub, w)
       IN  /\ active_connections' = h.ac
           /\ connection_data' = h.cd
           /\ frame' = Touch(frame, SetOf(active_connections) \ SetOf(h.ac))
    /\ ep' = [ep EXCEPT ![w] = "gone"]
    /\ UNCHANGED <<chan, outbox, hs_failed, inbound, sensorVars, is_running, scheduler, calls, pc,
                   cleanup_pc, lifespan, now, query, job_runs, job_log, budget, max_runs, forecast, analysis, draws, lines, deviceVars>>

\* ------------------------------------------------- inbound control messages
\* what a subscriber can send: text that is not JSON, JSON that is not an
\* object, and objects with a "type" and a "subscription"
Inbound(json, type, subscription) ==
    [json |-> json, type |-> type, subscription |-> subscription]

InboundMessages ==
    { Inbound("object", "ping", "none"),
      Inbound("object", "subscribe", "telemetry"),
      Inbound("object", "subscribe", "weather"),
      Inbound("object", "hello", "none"),
      Inbound("invalid", "none", "none"),
      Inbound("other", "none", "none") }

\* the list in handle_subscription
Topics == {"telemetry", "alerts", "analysis"}

\* a variant that keeps one subscription list for all the handles
HandleSubscriptionShared(cd, w, topic) ==
    [x \in DOMAIN cd |->
        [cd[x] EXCEPT !.subscriptions =
                          IF InList(@, topic) THEN @ ELSE Append(@, topic)]]

\* a variant that records a topic again when it is already recorded
HandleSubscriptionAlwaysAppends(cd, w, topic) ==
    [cd EXCEPT ![w].subscriptions = Append(@, topic)]

\* handle_subscription: the metadata once a listed topic is recorded for w
handle_subscription(cd, w, topic) ==
    [cd EXCEPT ![w].subscriptions =
                   IF InList(@, topic) THEN @ ELSE Append(@, topic)]

\* handle_message starts the send of a reply to w and suspends in it
Reply(w, type) ==
    /\ outbox' = [outbox EXCEPT ![w] = Append(@, Msg(type, 0, TRUE))]
    /\ ep' = [ep EXCEPT ![w] = "reply"]
    /\ UNCHANGED <<chan, frame>>

\* handle_message raises: websocket_endpoint catches WebSocketDisconnect
\* only, so the exception ends it and the server closes the socket
Raise(w) ==
    /\ ep' = [ep EXCEPT ![w] = "crashed"]
    /\ chan' = [chan EXCEPT ![w] = "closed"]
    /\ frame' = Touch(frame, {w})
    /\ UNCHANGED outbox

\* handle_message(websocket, data), up to its first await
handle_message(w, data) ==
    CASE data.json = "invalid" ->
             Reply(w, "error") /\ UNCHANGED connection_data
      [] data.json = "other" ->
             Raise(w) /\ UNCHANGED connection_data
      [] data.type = "ping" ->
             Reply(w, "pong") /\ UNCHANGED connection_data
      [] data.type = "subscribe" ->
             IF data.subscription \in Topics
             THEN IF w \in DOMAIN connection_data
                  THEN /\ connection_data' =
                              handle_subscription(connection_data, w,
                                                  data.subscription)
                       /\ Reply(w, "subscription_confirmed")
                  ELSE Raise(w) /\ UNCHANGED connection_data
             ELSE UNCHANGED <<connection_data, outbox, ep, chan, frame>>
      [] OTHER ->
             Reply(w, "error") /\ UNCHANGED connection_data

\* websocket_endpoint: receive_text() returns and handle_message is awaited
HandleMessage(w) ==
    /\ ep[w] = "recv"
    /\ chan[w] = "open"
    /\ Len(inbound[1]) + Len(inbound[NumWS]) < MaxInbound
    /\ \E data \in InboundMessages :
          /\ inbound' = [inbound EXCEPT ![w] = Append(@, data)]
          /\ handle_message(w, data)
    /\ UNCHANGED <<active_connections, hs_failed, sensorVars, is_running, scheduler, calls, pc,
                   cleanup_pc, lifespan, now, query, job_runs, job_log, budget, max_runs, forecast, analysis, draws, lines, deviceVars>>

\* the send of the reply completes, or raises and unregisters the handle
ReplyDone(w) ==
    /\ ep[w] = "reply"
    /\ LET h == send_personal_message(Hub, w, chan[w] = "closed")
       IN  /\ active_connections' = h.ac
           /\ connection_data' = h.cd
           /\ frame' = Touch(frame, SetOf(active_connections) \ SetOf(h.ac))
    /\ ep' = [ep EXCEPT ![w] = "recv"]
    /\ UNCHANGED <<chan, outbox, hs_failed, inbound, sensorVars, is_running, scheduler, calls,
                   pc, cleanup_pc, lifespan, now, query, job_runs, job_log, budget, max_runs, forecast, analysis, draws, lines, deviceVars>>

\* --------------------------------------------------------- PlantCareScheduler
EmergencyThreshold == 40
CriticalThreshold == 20
DroughtThreshold == 20

\* health scores the regression model may return
HealthScores == {10, 30, 80}

\* the ids of the jobs start() adds, in the order of its add_job calls
JobIds ==
    <<"health_analysis", "alert_check", "data_cleanup", "predictive_analysis",
      "system_health">>

\* the coroutine of each job
JobTasks ==
    {"health", "syshealth", "alert_check", "predictive_analysis",
     "data_cleanup"}

\* a variant of start() without the is_running test
StartUnguarded ==
    /\ calls' = [calls EXCEPT !.start = @ + 1]
    /\ scheduler' = [scheduler EXCEPT !.running = TRUE, !.jobs = @ \o JobIds]
    /\ is_running' = TRUE

\* start(): nothing when already running; else the five add_job calls,
\* scheduler.start() and the flag
start ==
    /\ calls' = [calls EXCEPT !.start = @ + 1]
    /\ IF is_running
       THEN UNCHANGED <<is_running, scheduler>>
       ELSE /\ scheduler' =
                   [scheduler EXCEPT !.running = TRUE, !.jobs = @ \o JobIds]
            /\ is_running' = TRUE

\* shutdown(): `if self.scheduler.running: self.scheduler.shutdown()`, which
\* an AsyncIOScheduler hands to the event loop, then the flag
shutdown ==
    /\ calls' = [calls EXCEPT !.shutdown = @ + 1]
    /\ scheduler' = IF scheduler.running
                    THEN [scheduler EXCEPT !.stopping = TRUE]
                    ELSE scheduler
    /\ is_running' = FALSE

\* a variant in which a job that has raised takes every job off the schedule
FiresUntilFailure(id) ==
    /\ scheduler.running
    /\ ~scheduler.stopping
    /\ InList(scheduler.jobs, id)
    /\ \A i \in 1..Len(job_log) : ~job_log[i].failed

\* the job with this id is due and the scheduler submits it
Fires(id) ==
    /\ scheduler.running
    /\ ~scheduler.stopping
    /\ InList(scheduler.jobs, id)

\* ------------------------------------------------------------ main.lifespan
\* startup: `await sensor_service.initialize()`, `scheduler.start()`; nothing
\* else runs before the application serves
Startup ==
    /\ lifespan = "startup"
    /\ \E ok \in BOOLEAN : initialize(ok)
    /\ start
    /\ lifespan' = "serving"
    /\ UNCHANGED <<hubVars, latest_reading, reading_history, max_history,
                   accepted, frame, cleanup_pc, now, query, job_runs, job_log, budget, max_runs, forecast, analysis, draws, lines,
                   discarded, cmd, stops>>

\* shutdown: `scheduler.shutdown()`, `await sensor_service.cleanup()`
Shutdown ==
    /\ lifespan = "serving"
    /\ shutdown
    /\ cleanup
    /\ lifespan' = "shutdown"
    /\ UNCHANGED <<hubVars, latest_reading, reading_history, max_history,
                   accepted, pc, frame, now, query, job_runs, job_log, budget, max_runs, forecast, analysis, draws, lines,
                   discarded, cmd>>

\* _trigger_emergency_protocols: whether emergency_actions is not empty
EmergencyActions(score, telemetry) ==
    score < CriticalThreshold \/ telemetry.soil_moisture < DroughtThreshold

\* the scoring or forecasting call raises instead of returning
Raises == -1

\* one execution of a job: whether it raised, what the engine returned from
\* the reading or window it pulled, and the events it published, in order
JobRun(job, n) ==
    [job |-> job, n |-> n, failed |-> FALSE, reading |-> <<>>, score |-> 0,
     alerts |-> <<>>, window |-> 0, risks |-> FALSE, events |-> <<>>]

\* _periodic_health_analysis fires.  analysis.dict() holds a datetime, which
\* json.dumps cannot serialise.
HealthJob ==
    /\ Fires("health_analysis")
    /\ pc["health"] = "idle"
    /\ job_runs < max_runs
    /\ BudgetLeft
    /\ job_runs' = job_runs + 1
    /\ LET run == JobRun("health_analysis", job_runs + 1)
       IN
       IF get_latest_reading = <<>>
       THEN /\ job_log' = Append(job_log, run)
            /\ UNCHANGED <<active_connections, connection_data, outbox, frame,
                           pc>>
       ELSE \E health_score \in HealthScores \cup {Raises} :
              IF health_score = Raises
              THEN /\ job_log' = Append(job_log, [run EXCEPT !.failed = TRUE])
                   /\ UNCHANGED <<active_connections, connection_data, outbox,
                                  frame, pc>>
              ELSE
              LET m1 == Msg("health_analysis", job_runs + 1, FALSE)
                  r1 == broadcast(NewFrame(m1, Hub), Hub, outbox)
                  m2 == Msg("emergency_alert", job_runs + 1, TRUE)
                  r2 == broadcast(NewFrame(m2, r1.hub), r1.hub, r1.ob)
                  emergency ==
                      /\ r1.fin
                      /\ health_score < EmergencyThreshold
                      /\ EmergencyActions(health_score, get_latest_reading[1])
                  r  == IF emergency THEN r2 ELSE r1
              IN  /\ job_log' =
                        Append(job_log,
                               [run EXCEPT
                                  !.score = health_score,
                                  !.events =
                                      IF emergency
                                      THEN <<"health_analysis",
                                             "emergency_alert">>
                                      ELSE <<"health_analysis">>])
                  /\ Deliver("health", r)
    /\ UNCHANGED <<chan, ep, hs_failed, inbound, sensorVars, is_running,
                   scheduler, calls, cleanup_pc, lifespan, now, query, budget, max_runs, forecast, analysis, draws, lines,
                   deviceVars>>

\* one entry of the `alerts` list; the message embeds the value, printed
\* with two decimals for the soil moisture, which keeps hundredths as they are
Alert(type, title, category, value) ==
    [type |-> type, title |-> title, category |-> category, value |-> value]

\* `if latest_reading.temperature < 15: ... elif ... > 35: ...`
temperature_alerts(latest) ==
    IF latest.temperature < AlertTempLow
    THEN <<Alert("critical", "Critical Low Temperature", "temperature",
                 latest.temperature)>>
    ELSE IF latest.temperature > AlertTempHigh
    THEN <<Alert("critical", "Critical High Temperature", "temperature",
                 latest.temperature)>>
    ELSE <<>>

\* `if latest_reading.humidity < 25: ... elif ... > 85: ...`
humidity_alerts(latest) ==
    IF latest.humidity < AlertHumidityLow
    THEN <<Alert("warning", "Low Humidity Alert", "humidity", latest.humidity)>>
    ELSE IF latest.humidity > AlertHumidityHigh
    THEN <<Alert("warning", "High Humidity Alert", "humidity",
                 latest.humidity)>>
    ELSE <<>>

\* `if latest_reading.soil_moisture < 0.2: ... elif ... > 0.9: ...`
soil_moisture_alerts(latest) ==
    IF latest.soil_moisture < AlertSoilLow
    THEN <<Alert("critical", "Low Soil Moisture", "watering",
                 latest.soil_moisture)>>
    ELSE IF latest.soil_moisture > AlertSoilHigh
    THEN <<Alert("warning", "Overwatering Risk", "watering",
                 latest.soil_moisture)>>
    ELSE <<>>

\* `if latest_reading.co2_level < 300: ...`
co2_alerts(latest) ==
    IF latest.co2_level < AlertCo2Low
    THEN <<Alert("info", "Low CO2 Levels", "air_quality", latest.co2_level)>>
    ELSE <<>>

\* a variant whose soil moisture rule also fires on the lower threshold
CheckAlertRulesInclusive(latest) ==
    temperature_alerts(latest) \o humidity_alerts(latest)
        \o (IF latest.soil_moisture <= AlertSoilLow
            THEN <<Alert("critical", "Low Soil Moisture", "watering",
                         latest.soil_moisture)>>
            ELSE IF latest.soil_moisture > AlertSoilHigh
            THEN <<Alert("warning", "Overwatering Risk", "watering",
                         latest.soil_moisture)>>
            ELSE <<>>)
        \o co2_alerts(latest)

\* _check_alerts, the rules: `alerts = []` and the append of each rule that
\* fires, in the order of the code
check_alert_rules(latest) ==
    temperature_alerts(latest) \o humidity_alerts(latest)
        \o soil_moisture_alerts(latest) \o co2_alerts(latest)

\* a variant of _check_alerts that publishes one new_alerts event per alert
AlertJobPerAlert ==
    /\ Fires("alert_check")
    /\ pc["alert_check"] = "idle"
    /\ job_runs < max_runs
    /\ job_runs' = job_runs + 1
    /\ LET latest == get_latest_reading
           run == [JobRun("alert_check", job_runs + 1) EXCEPT !.reading = latest]
           alerts == IF latest = <<>> THEN <<>> ELSE check_alert_rules(latest[1])
       IN  IF alerts = <<>>
           THEN /\ job_log' = Append(job_log, run)
                /\ UNCHANGED <<active_connections, connection_data, outbox,
                               frame, pc>>
           ELSE /\ job_log' =
                      Append(job_log,
                             [run EXCEPT !.alerts = alerts,
                                         !.events = [k \in 1..Len(alerts) |->
                                                        "new_alerts"]])
                /\ Deliver("alert_check",
                           broadcast(
                               NewFrame(Msg("new_alerts", job_runs + 1, TRUE),
                                        Hub),
                               Hub, outbox))
    /\ UNCHANGED <<chan, ep, hs_failed, inbound, sensorVars, is_running,
                   scheduler, calls, cleanup_pc, lifespan, now, query, budget,
                   max_runs, forecast, analysis, draws, lines, deviceVars>>

\* _check_alerts fires: the rules on the latest reading, and one new_alerts
\* broadcast with the whole list when it is not empty
AlertJob ==
    /\ Fires("alert_check")
    /\ pc["alert_check"] = "idle"
    /\ job_runs < max_runs
    /\ job_runs' = job_runs + 1
    /\ LET latest == get_latest_reading
           run == [JobRun("alert_check", job_runs + 1) EXCEPT !.reading = latest]
       IN  IF latest = <<>>
           THEN /\ job_log' = Append(job_log, run)
                /\ UNCHANGED <<active_connections, connection_data, outbox,
                               frame, pc>>
           ELSE LET alerts == check_alert_rules(latest[1])
                IN  IF alerts = <<>>
                    THEN /\ job_log' = Append(job_log, run)
                         /\ UNCHANGED <<active_connections, connection_data,
                                        outbox, frame, pc>>
                    ELSE /\ job_log' =
                               Append(job_log,
                                      [run EXCEPT !.alerts = alerts,
                                                  !.events = <<"new_alerts">>])
                         /\ Deliver("alert_check",
                                    broadcast(
                                        NewFrame(Msg("new_alerts", job_runs + 1,
                                                     TRUE), Hub),
                                        Hub, outbox))
    /\ UNCHANGED <<chan, ep, hs_failed, inbound, sensorVars, is_running,
                   scheduler, calls, cleanup_pc, lifespan, now, query, budget,
                   max_runs, forecast, analysis, draws, lines, deviceVars>>

\* _detect_stress_indicators: one indicator at most for each of temperature,
\* humidity, soil moisture and co2, and one for a light level that is given,
\* not 0, and low
_detect_stress_indicators(telemetry) ==
    (IF telemetry.temperature < StressTempLow
     THEN <<"Cold stress - temperature too low">>
     ELSE IF telemetry.temperature > StressTempHigh
     THEN <<"Heat stress - temperature too high">>
     ELSE <<>>)
    \o (IF telemetry.humidity < StressHumidityLow
        THEN <<"Low humidity stress">>
        ELSE IF telemetry.humidity > StressHumidityHigh
        THEN <<"High humidity - risk of fungal issues">>
        ELSE <<>>)
    \o (IF telemetry.soil_moisture < StressSoilLow
        THEN <<"Drought stress - soil too dry">>
        ELSE IF telemetry.soil_moisture > StressSoilHigh
        THEN <<"Waterlogged soil - risk of root rot">>
        ELSE <<>>)
    \o (IF telemetry.co2_level < StressCo2Low
        THEN <<"Low CO2 - limited photosynthesis">>
        ELSE IF telemetry.co2_level > StressCo2High
        THEN <<"Excessive CO2 levels">>
        ELSE <<>>)
    \o (IF /\ telemetry.light_level # <<>>
           /\ telemetry.light_level[1] # 0
           /\ telemetry.light_level[1] < StressLightLow
        THEN <<"Insufficient light for photosynthesis">>
        ELSE <<>>)

\* a variant that counts a humidity of exactly 70 as fungal weather
CalculateDiseaseProbabilityInclusive(telemetry, stress_indicators) ==
    LET risk_factors ==
            (IF /\ telemetry.humidity >= FungalHumidity
                /\ telemetry.temperature > FungalTemp THEN 3 ELSE 0)
            + (IF /\ telemetry.humidity > StaleHumidity
                  /\ telemetry.co2_level > StaleCo2 THEN 2 ELSE 0)
            + Len(stress_indicators)
            + (IF telemetry.soil_moisture > OverwateredSoil THEN 2 ELSE 0)
    IN  IF risk_factors > 10 THEN 10 ELSE risk_factors

\* _calculate_disease_probability, in tenths: min(1.0, risk_factors)
_calculate_disease_probability(telemetry, stress_indicators) ==
    LET risk_factors ==
            (IF /\ telemetry.humidity > FungalHumidity
                /\ telemetry.temperature > FungalTemp THEN 3 ELSE 0)
            + (IF /\ telemetry.humidity > StaleHumidity
                  /\ telemetry.co2_level > StaleCo2 THEN 2 ELSE 0)
            + Len(stress_indicators)
            + (IF telemetry.soil_moisture > OverwateredSoil THEN 2 ELSE 0)
    IN  IF risk_factors > 10 THEN 10 ELSE risk_factors

\* valid readings on and next to the thresholds of the heuristic, the light
\* level absent, zero, low or high
DiseaseReadings ==
    {[temperature |-> t, humidity |-> h, soil_moisture |-> s, co2_level |-> c,
      light_level |-> l] :
        t \in {14, 25, 26, 31}, h \in {29, 70, 71, 75, 76, 81},
        s \in {19, 80, 81, 91}, c \in {399, 1200, 1201, 1501},
        l \in {<<>>, <<0>>, <<100>>, <<500>>}}

\* the stress-indicator lists given with a reading: the one detected on it,
\* and lists of every length
StressLists(telemetry) ==
    {_detect_stress_indicators(telemetry)}
        \cup {[i \in 1..k |-> "Low humidity stress"] : k \in 0..MaxIndicators}

\* analyze_plant_health reaches `disease_prob = ...`, once in a behaviour
Analyze ==
    /\ ~analysis.asked
    /\ \E telemetry \in DiseaseReadings :
          \E stress_indicators \in StressLists(telemetry) :
             analysis' =
                 [asked |-> TRUE, telemetry |-> <<telemetry>>,
                  stress_indicators |-> stress_indicators,
                  disease_probability |->
                      _calculate_disease_probability(telemetry,
                                                     stress_indicators)]
    /\ UNCHANGED <<hubVars, sensorVars, is_running, scheduler, calls, pc,
                   frame, cleanup_pc, lifespan, now, query, job_runs, job_log,
                   budget, max_runs, draws, lines, deviceVars, forecast>>

\* sum of f[i] over i in 1..n
RECURSIVE Sum(_, _)
Sum(f, n) == IF n = 0 THEN 0 ELSE f[n] + Sum(f, n - 1)

\* np.polyfit(x, values, 1)[0] for x = 0 .. n-1: the least-squares slope, as
\* the fraction num / den with den > 0
Slope(values) ==
    LET n == Len(values)
        x == [i \in 1..n |-> i - 1]
        xy == [i \in 1..n |-> x[i] * values[i]]
        xx == [i \in 1..n |-> x[i] * x[i]]
    IN  [num |-> n * Sum(xy, n) - Sum(x, n) * Sum(values, n),
         den |-> n * Sum(xx, n) - Sum(x, n) * Sum(x, n)]

\* round(num / den, 0) for den > 0, halves going up
Round(num, den) == (2 * num + den) \div (2 * den)

\* round(latest_value + trend * hours_ahead, 2), in hundredths of the unit
\* of `values` times `scale`
Predicted(values, hours_ahead, scale) ==
    LET trend == Slope(values)
    IN  Round(scale * (values[Len(values)] * trend.den
                          + trend.num * hours_ahead),
              trend.den)

\* |trend| < 0.1 for the slope num / den of values in 1 / unit of the field
Stable(trend, unit) == 10 * (IF trend.num < 0 THEN -trend.num ELSE trend.num)
                           < unit * trend.den

\* PredictionResponse, numbers in hundredths (confidence in tenths)
PredictionResponse(type, hours, values, confidence, recommendations, risks) ==
    [prediction_type |-> type, forecast_hours |-> hours,
     predicted_values |-> values, confidence |-> confidence,
     recommendations |-> recommendations, risk_factors |-> risks]

\* a variant that takes a window of four readings for enough
PredictFutureConditionsFourIsEnough(historical_data, hours_ahead) ==
    IF Len(historical_data) < InsufficientData - 1
    THEN PredictionResponse(
             "insufficient_data", hours_ahead, <<>>, 0,
             <<"Collect more sensor data for accurate predictions">>,
             <<"Insufficient historical data">>)
    ELSE PredictionResponse("trend_analysis", hours_ahead, <<>>, 7, <<>>, <<>>)

\* a variant that assesses the soil risk before it rounds the prediction
PredictFutureConditionsUnrounded(historical_data, hours_ahead) ==
    LET n == Len(historical_data)
        soil == [i \in 1..n |-> historical_data[i].soil_moisture]
        trend == Slope(soil)
    IN  IF n < InsufficientData
        THEN PredictionResponse(
                 "insufficient_data", hours_ahead, <<>>, 0,
                 <<"Collect more sensor data for accurate predictions">>,
                 <<"Insufficient historical data">>)
        ELSE LET low == soil[n] * trend.den + trend.num * hours_ahead
                            < ForecastSoilLow * trend.den
             IN  PredictionResponse(
                     "trend_analysis", hours_ahead,
                     [temperature |->
                          Predicted([i \in 1..n |->
                                        historical_data[i].temperature],
                                    hours_ahead, 100),
                      soil_moisture |-> Predicted(soil, hours_ahead, 1)],
                     7,
                     IF low THEN <<"Schedule watering">> ELSE <<>>,
                     IF low THEN <<"Soil moisture decreasing rapidly">>
                     ELSE <<>>)

\* predict_future_conditions: the insufficient-data answer for fewer than 5
\* readings; else, for each column, round(latest + slope * hours_ahead, 2),
\* the risks and recommendations read off the rounded predictions, and the
\* confidence.  A reading without a light level counts as 500.
predict_future_conditions(historical_data, hours_ahead) ==
    IF Len(historical_data) < InsufficientData
    THEN PredictionResponse(
             "insufficient_data", hours_ahead, <<>>, 0,
             <<"Collect more sensor data for accurate predictions">>,
             <<"Insufficient historical data">>)
    ELSE LET n == Len(historical_data)
             temperature == [i \in 1..n |-> historical_data[i].temperature]
             humidity == [i \in 1..n |-> historical_data[i].humidity]
             soil_moisture == [i \in 1..n |-> historical_data[i].soil_moisture]
             co2_level == [i \in 1..n |-> historical_data[i].co2_level]
             light_level ==
                 [i \in 1..n |->
                     IF \/ historical_data[i].light_level = <<>>
                        \/ historical_data[i].light_level[1] = 0
                     THEN DefaultLight
                     ELSE historical_data[i].light_level[1]]
             predictions ==
                 [temperature |-> Predicted(temperature, hours_ahead, 100),
                  humidity |-> Predicted(humidity, hours_ahead, 100),
                  soil_moisture |-> Predicted(soil_moisture, hours_ahead, 1),
                  co2_level |-> Predicted(co2_level, hours_ahead, 100),
                  light_level |-> Predicted(light_level, hours_ahead, 100)]
             hot == predictions.temperature > 100 * ForecastTempHigh
             cold == predictions.temperature < 100 * ForecastTempLow
             dry == predictions.soil_moisture < ForecastSoilLow
             stable == /\ Stable(Slope(temperature), 1)
                       /\ Stable(Slope(humidity), 1)
                       /\ Stable(Slope(soil_moisture), 100)
                       /\ Stable(Slope(co2_level), 1)
                       /\ Stable(Slope(light_level), 1)
         IN  PredictionResponse(
                 "trend_analysis", hours_ahead, predictions,
                 IF stable THEN 9 ELSE 7,
                 (IF hot THEN <<"Prepare cooling measures">>
                  ELSE IF cold THEN <<"Prepare heating">> ELSE <<>>)
                     \o (IF dry THEN <<"Schedule watering">> ELSE <<>>),
                 (IF hot THEN <<"Temperature trending too high">>
                  ELSE IF cold THEN <<"Temperature trending too low">>
                  ELSE <<>>)
                     \o (IF dry THEN <<"Soil moisture decreasing rapidly">>
                         ELSE <<>>))

\* a window of n readings: temperature and soil moisture start at t0 and s0
\* and move by dt and ds from one reading to the next; the second reading
\* is off the line by bump
Window(n, t0, dt, s0, ds, bump) ==
    [i \in 1..n |->
        TelemetryData(JsonLine(t0 + (i - 1) * dt, 60,
                               s0 + (i - 1) * ds + (IF i = 2 THEN bump ELSE 0),
                               800), i)]

\* the windows the forecast is asked on: every length up to MaxWindow,
\* steady, rising and falling, on a line and off it, valid readings only
Windows ==
    {w \in {Window(n, t0, dt, s0, ds, bump) :
                n \in 0..MaxWindow, t0 \in {14, 22, 31}, dt \in {-1, 0, 1},
                s0 \in {30, 60}, ds \in {-3, 0, 1}, bump \in {0, 5}} :
        \A i \in 1..Len(w) :
            /\ w[i].soil_moisture >= SoilMin
            /\ w[i].soil_moisture <= SoilMax}

\* the horizons asked for: none, negative, short, the job's, a day, the cap
\* of the entry point and beyond it
Horizons == {-1, 0, 1, ForecastHours, 24, ForecastCap, ForecastCap + 1}

\* somebody awaits ai_service.predict_future_conditions(window, hours_ahead),
\* once in a behaviour
Predict ==
    /\ ~forecast.asked
    /\ \E historical_data \in Windows, hours_ahead \in Horizons :
          forecast' =
              [asked |-> TRUE, historical_data |-> historical_data,
               hours_ahead |-> hours_ahead, status |-> "ok",
               result |-> <<predict_future_conditions(historical_data,
                                                      hours_ahead)>>]
    /\ UNCHANGED <<hubVars, sensorVars, is_running, scheduler, calls, pc,
                   frame, cleanup_pc, lifespan, now, query, job_runs, job_log,
                   budget, max_runs, draws, lines, deviceVars, analysis>>

\* `if len(history) < 10: return`
too_short(history) == Len(history) < MinWindow

\* _predictive_analysis fires: the last 24 hours of the history, nothing when
\* that is fewer than 10 readings, else the forecast and its
\* prediction_update broadcast
PredictJob ==
    /\ Fires("predictive_analysis")
    /\ pc["predictive_analysis"] = "idle"
    /\ job_runs < max_runs
    /\ job_runs' = job_runs + 1
    /\ LET history == get_history(reading_history, PredictWindowHours, now)
           run == [JobRun("predictive_analysis", job_runs + 1)
                      EXCEPT !.window = Len(history)]
       IN  IF too_short(history)
           THEN /\ job_log' = Append(job_log, run)
                /\ UNCHANGED <<active_connections, connection_data, outbox,
                               frame, pc>>
           ELSE \E raises \in BOOLEAN :
                  IF raises
                  THEN /\ job_log' =
                             Append(job_log, [run EXCEPT !.failed = TRUE])
                       /\ UNCHANGED <<active_connections, connection_data,
                                      outbox, frame, pc>>
                  ELSE
                  LET prediction ==
                          predict_future_conditions(history, ForecastHours)
                      risks == prediction.risk_factors # <<>>
                      m1 == Msg("prediction_update", job_runs + 1, TRUE)
                      r1 == broadcast(NewFrame(m1, Hub), Hub, outbox)
                      m2 == Msg("predictive_alert", job_runs + 1, TRUE)
                      r2 == broadcast(NewFrame(m2, r1.hub), r1.hub, r1.ob)
                      both == r1.fin /\ risks
                  IN  /\ job_log' =
                            Append(job_log,
                                   [run EXCEPT
                                      !.risks = risks,
                                      !.events =
                                          IF both
                                          THEN <<"prediction_update",
                                                 "predictive_alert">>
                                          ELSE <<"prediction_update">>])
                      /\ Deliver("predictive_analysis",
                                 IF both THEN r2 ELSE r1)
    /\ UNCHANGED <<chan, ep, hs_failed, inbound, sensorVars, is_running,
                   scheduler, calls, cleanup_pc, lifespan, now, query, budget,
                   max_runs, forecast, analysis, draws, lines, deviceVars>>

\* the last execution of a job; execution n is entry n of the log
LastRun(job) ==
    CHOOSE i \in 1..Len(job_log) :
        /\ job_log[i].job = job
        /\ \A j \in (i + 1)..Len(job_log) : job_log[j].job # job

\* _predictive_analysis after its first broadcast: `if prediction.risk_factors`
PredictAlert ==
    /\ pc["predictive_analysis"] = "risks"
    /\ LET n == LastRun("predictive_analysis")
       IN  /\ job_log' = [job_log EXCEPT ![n].events =
                                            Append(@, "predictive_alert")]
           /\ Deliver("predictive_analysis",
                      broadcast(NewFrame(Msg("predictive_alert", n, TRUE), Hub),
                                Hub, outbox))
    /\ UNCHANGED <<chan, ep, hs_failed, inbound, sensorVars, is_running,
                   scheduler, calls, cleanup_pc, lifespan, now, query, job_runs,
                   budget, max_runs, forecast, analysis, draws, lines, deviceVars>>

\* _cleanup_old_data fires: the cutoff date is computed and logged, nothing
\* is removed
CleanupJob ==
    /\ Fires("data_cleanup")
    /\ pc["data_cleanup"] = "idle"
    /\ job_runs < max_runs
    /\ job_runs' = job_runs + 1
    /\ job_log' = Append(job_log, JobRun("data_cleanup", job_runs + 1))
    /\ UNCHANGED <<hubVars, sensorVars, is_running, scheduler, calls, pc,
                   frame, cleanup_pc, lifespan, now, query, budget, max_runs, forecast, analysis,
                   draws, lines, deviceVars>>

\* start() is called again; its callers let the event loop run between a
\* shutdown() and the next start()
StartCall ==
    /\ lifespan = "serving"
    /\ ~scheduler.stopping
    /\ calls.start < MaxStarts
    /\ start
    /\ UNCHANGED <<hubVars, sensorVars, pc, frame, cleanup_pc, lifespan, now,
                   query, job_runs, job_log, budget, max_runs, forecast, analysis, draws, lines,
                   deviceVars>>

\* shutdown() is called
ShutdownCall ==
    /\ lifespan = "serving"
    /\ calls.shutdown < MaxShutdowns
    /\ shutdown
    /\ UNCHANGED <<hubVars, sensorVars, pc, frame, cleanup_pc, lifespan, now,
                   query, job_runs, job_log, budget, max_runs, forecast, analysis, draws, lines,
                   deviceVars>>

\* the event loop runs the shutdown the scheduler handed to it: the job
\* store is emptied, and the executor cancels the jobs in flight where it
\* keeps track of them
SchedulerStopped ==
    /\ scheduler.stopping
    /\ scheduler' = [running |-> FALSE, stopping |-> FALSE, jobs |-> <<>>]
    /\ \E cancels \in BOOLEAN :
          IF cancels
          THEN /\ pc' = [t \in Tasks |->
                           IF t \in JobTasks THEN "idle" ELSE pc[t]]
               /\ frame' = [t \in Tasks |->
                              IF t \in JobTasks THEN IdleFrame ELSE frame[t]]
          ELSE UNCHANGED <<pc, frame>>
    /\ UNCHANGED <<hubVars, sensorVars, is_running, calls, cleanup_pc,
                   lifespan, now, query, job_runs, job_log, budget, max_runs, forecast, analysis,
                   draws, lines, deviceVars>>

\* _system_health_check fires
SysHealthJob ==
    /\ Fires("health_analysis")
    /\ pc["syshealth"] = "idle"
    /\ job_runs < max_runs
    /\ BudgetLeft
    /\ job_runs' = job_runs + 1
    /\ job_log' =
          Append(job_log,
                 [JobRun("system_health", job_runs + 1) EXCEPT
                    !.events = IF ~is_connected \/ get_connection_count = 0
                               THEN <<"system_alert">> ELSE <<>>])
    /\ IF ~is_connected \/ get_connection_count = 0
       THEN Deliver("syshealth",
                    broadcast(NewFrame(Msg("system_alert", job_runs + 1, TRUE), Hub),
                              Hub, outbox))
       ELSE UNCHANGED <<active_connections, connection_data, outbox, frame, pc>>
    /\ UNCHANGED <<chan, ep, hs_failed, inbound, sensorVars, is_running, scheduler, calls, cleanup_pc,
                   lifespan, now, query, budget, max_runs, forecast, analysis, draws, lines, deviceVars>>

\* ------------------------------------------------------------- api.routes
\* _restart_services, the background task of POST /system/restart:
\* scheduler.shutdown() returns; `await asyncio.sleep(2)` raises NameError,
\* the module never imports asyncio; `except Exception` catches it and
\* broadcasts system_error.  scheduler.start(), cleanup(), initialize() and
\* the system_restarted broadcast are never reached.
RestartServices ==
    /\ lifespan = "serving"
    /\ pc["restart"] = "idle"
    /\ shutdown
    /\ Deliver("restart",
               broadcast(NewFrame(Msg("system_error", 0, TRUE), Hub),
                         Hub, outbox))
    /\ UNCHANGED <<chan, ep, hs_failed, inbound, sensorVars, cleanup_pc,
                   lifespan, now, query, job_runs, job_log, budget, max_runs,
                   forecast, analysis, draws, lines, deviceVars>>

\* ------------------------------------------------------ clock and queries
Tick ==
    /\ now < MaxTime
    /\ now' = now + 1
    /\ UNCHANGED <<hubVars, sensorVars, is_running, scheduler, calls, pc, frame, cleanup_pc,
                   lifespan, query, job_runs, job_log, budget, max_runs, forecast, analysis, draws, lines, deviceVars>>

\* the retention horizon goes by, once
Idle ==
    /\ now <= MaxTime
    /\ now' = now + timedelta_hours(24 * RetentionDays) + 1
    /\ UNCHANGED <<hubVars, sensorVars, is_running, scheduler, calls, pc,
                   frame, cleanup_pc, lifespan, query, job_runs, job_log,
                   budget, max_runs, forecast, analysis, draws, lines, deviceVars>>

\* GET /telemetry/history: get_history(hours)
GetHistory ==
    /\ \E hours \in -1..MaxHours :
          query' = [hours |-> hours, at |-> now, asked |-> TRUE,
                    result |-> get_history(reading_history, hours, now)]
    /\ UNCHANGED <<hubVars, sensorVars, is_running, scheduler, calls, pc, frame, cleanup_pc,
                   lifespan, now, job_runs, job_log, budget, max_runs, forecast, analysis, draws, lines, deviceVars>>

\* POST /predictions/forecast: 400 above the cap, 400 on fewer than 10
\* readings in the last max(24, hours_ahead) hours, else the forecast of the
\* engine on those readings
generate_predictions(hours_ahead) ==
    IF hours_ahead > ForecastCap
    THEN [asked |-> TRUE, historical_data |-> <<>>, hours_ahead |-> hours_ahead,
          status |-> "400", result |-> <<>>]
    ELSE LET required_history_hours ==
                 IF hours_ahead > MinHistoryHours THEN hours_ahead
                 ELSE MinHistoryHours
             history == get_history(reading_history, required_history_hours,
                                    now)
         IN  IF too_short(history)
             THEN [asked |-> TRUE, historical_data |-> <<>>,
                   hours_ahead |-> hours_ahead, status |-> "400",
                   result |-> <<>>]
             ELSE [asked |-> TRUE, historical_data |-> history,
                   hours_ahead |-> hours_ahead, status |-> "ok",
                   result |-> <<predict_future_conditions(history,
                                                          hours_ahead)>>]

\* a client posts to /predictions/forecast, once in a behaviour
GeneratePredictions ==
    /\ lifespan = "serving"
    /\ ~forecast.asked
    /\ \E hours_ahead \in Horizons :
          forecast' = generate_predictions(hours_ahead)
    /\ UNCHANGED <<hubVars, sensorVars, is_running, scheduler, calls, pc,
                   frame, cleanup_pc, lifespan, now, query, job_runs, job_log,
                   budget, max_runs, draws, lines, deviceVars, analysis>>

\* ------------------------------------------------------ specifications
Ingestion ==
    \/ ReadLine
    \/ ReadError
    \/ ReadEof
    \/ GenTick

Next ==
    \/ Ingestion
    \/ \E t \in Tasks : SendDone(t)
    \/ \E w \in WS : Connect(w)
    \/ \E w \in WS : HandshakeDone(w)
    \/ \E w \in WS : ChannelClose(w)
    \/ \E w \in WS : EndpointDisconnect(w)
    \/ Startup
    \/ Shutdown
    \/ CleanupFinish
    \/ HealthJob
    \/ SysHealthJob

Spec == Init /\ [][Next]_vars

\* the history buffer and its readers alone: nobody is subscribed
NextBuffer ==
    \/ Ingestion
    \/ Startup
    \/ Shutdown
    \/ CleanupFinish
    \/ Tick
    \/ GetHistory

SpecBuffer == InitBuffer /\ [][NextBuffer]_vars

\* the hub with subscribers that send control messages
NextControl ==
    \/ GenTick
    \/ \E t \in Tasks : SendDone(t)
    \/ \E w \in WS : Connect(w)
    \/ \E w \in WS : HandshakeDone(w)
    \/ \E w \in WS : ChannelClose(w)
    \/ \E w \in WS : EndpointDisconnect(w)
    \/ \E w \in WS : HandleMessage(w)
    \/ \E w \in WS : ReplyDone(w)
    \/ Startup
    \/ HealthJob

InitControl ==
    InitState /\ max_history = MaxCapacity /\ budget = MaxEvents /\ draws = {0} /\ max_runs = MaxJobRuns
        /\ lines = DeviceLines

SpecControl == InitControl /\ [][NextControl]_vars

\* the sensor service driven through its operations: start, stop, commands
NextDevice ==
    \/ Ingestion
    \/ StreamEof
    \/ \E t \in Tasks : SendDone(t)
    \/ \E w \in WS : Connect(w)
    \/ \E w \in WS : HandshakeDone(w)
    \/ Startup
    \/ Stop
    \/ CleanupFinish
    \/ SendCommand
    \/ CommandDone

InitDevice ==
    InitState /\ max_history = MaxCapacity /\ budget = MaxEvents /\ draws = {0} /\ max_runs = MaxJobRuns
        /\ lines = DeviceLines

SpecDevice == InitDevice /\ [][NextDevice]_vars

\* the event loop resumes the read loop, cleanup and a command whose await
\* has completed
FairDevice ==
    /\ SpecDevice
    /\ WF_vars(ReadEof)
    /\ WF_vars(CleanupFinish)
    /\ WF_vars(CommandDone)
    /\ \A t \in Tasks : WF_vars(SendDone(t))

\* the pipeline with the generator drawing over its whole range, and
\* subscribers that come and go
NextDegraded ==
    \/ GenTick
    \/ ReadLine
    \/ ReadError
    \/ \E t \in Tasks : SendDone(t)
    \/ \E w \in WS : Connect(w)
    \/ \E w \in WS : HandshakeDone(w)
    \/ \E w \in WS : ChannelClose(w)
    \/ Startup

InitDegraded ==
    InitState /\ max_history = MaxCapacity /\ budget = MaxEvents
              /\ draws = Draws /\ max_runs = MaxJobRuns
        /\ lines = DeviceLines

SpecDegraded == InitDegraded /\ [][NextDegraded]_vars

\* asyncio.sleep(interval) returns, and every send here completes
FairDegraded ==
    /\ SpecDegraded
    /\ WF_vars(GenTick)
    /\ \A t \in Tasks : WF_vars(SendDone(t))

\* readings on, next to and between the thresholds of the alert rules
RuleLines ==
    { JsonLine(t, h, m, c) :
        t \in {12, AlertTempLow, AlertTempHigh, AlertTempHigh + 1},
        h \in {AlertHumidityLow - 1, AlertHumidityLow, 60, AlertHumidityHigh,
               AlertHumidityHigh + 1},
        m \in {AlertSoilLow - 1, AlertSoilLow, 60, AlertSoilHigh,
               AlertSoilHigh + 1},
        c \in {AlertCo2Low - 1, AlertCo2Low, 800} }

\* the alert rules alone, on every reading of RuleLines
NextRules ==
    \/ Startup
    \/ ReadLine
    \/ AlertJob

InitRules ==
    /\ InitState
    /\ max_history = MaxCapacity
    /\ budget = MaxRuleReadings
    /\ max_runs = MaxRuleRuns
    /\ draws = {0}
    /\ lines = RuleLines

SpecRules == InitRules /\ [][NextRules]_vars

\* the scheduler driven through start() and shutdown(), its five jobs
\* firing, with readings coming in and subscribers
NextLifecycle ==
    \/ Startup
    \/ StartCall
    \/ ShutdownCall
    \/ SchedulerStopped
    \/ HealthJob
    \/ AlertJob
    \/ PredictJob
    \/ CleanupJob
    \/ SysHealthJob
    \/ ReadLine
    \/ \E t \in Tasks : SendDone(t)
    \/ \E w \in WS : Connect(w)

\* a reading that raises three alerts
LifecycleLines == {JsonLine(12, 20, 10, 800)}

InitLifecycle ==
    /\ InitState
    /\ max_history = MaxCapacity
    /\ budget = MaxLifecycleEvents
    /\ max_runs = MaxSchedRuns
    /\ draws = {0}
    /\ lines = LifecycleLines

SpecLifecycle == InitLifecycle /\ [][NextLifecycle]_vars

\* the five jobs firing while the scoring may raise
NextFailures ==
    \/ Startup
    \/ HealthJob
    \/ AlertJob
    \/ PredictJob
    \/ CleanupJob
    \/ SysHealthJob
    \/ ReadLine
    \/ \E t \in Tasks : SendDone(t)
    \/ \E w \in WS : Connect(w)

InitFailures ==
    /\ InitState
    /\ max_history = MaxCapacity
    /\ budget = MaxFailureEvents
    /\ max_runs = MaxFailureRuns
    /\ draws = {0}
    /\ lines = LifecycleLines

SpecFailures == InitFailures /\ [][NextFailures]_vars

\* the jobs that read the latest reading and the history, with two
\* subscribers
NextJobs ==
    \/ Startup
    \/ HealthJob
    \/ AlertJob
    \/ CleanupJob
    \/ ReadLine
    \/ Idle
    \/ \E t \in Tasks : SendDone(t)
    \/ \E w \in WS : Connect(w)
    \/ \E w \in WS : HandshakeDone(w)

\* a reading that raises no alert, and one that raises three
JobLines == {JsonLine(22, 60, 60, 800), JsonLine(12, 20, 10, 800)}

InitJobs ==
    /\ InitState
    /\ max_history = MaxCapacity
    /\ budget = MaxEvents
    /\ max_runs = MaxSchedRuns
    /\ draws = {0}
    /\ lines = JobLines

SpecJobs == InitJobs /\ [][NextJobs]_vars

\* the forecast engine applied to windows of every length
NextForecast == Predict

InitForecast ==
    /\ InitState
    /\ max_history = MaxCapacity
    /\ budget = MaxEvents
    /\ max_runs = MaxJobRuns
    /\ draws = {0}
    /\ lines = DeviceLines

SpecForecast == InitForecast /\ [][NextForecast]_vars

\* the disease heuristic applied to readings and stress-indicator lists
NextDisease == Analyze

InitDisease ==
    /\ InitState
    /\ max_history = MaxCapacity
    /\ budget = MaxEvents
    /\ max_runs = MaxJobRuns
    /\ draws = {0}
    /\ lines = DeviceLines

SpecDisease == InitDisease /\ [][NextDisease]_vars

\* the forecast entry point over histories of up to MaxWindow readings
NextEndpoint ==
    \/ Startup
    \/ ReadLine
    \/ GeneratePredictions

\* a steady reading and a drier, warmer one
EndpointLines == {JsonLine(22, 60, 60, 800), JsonLine(24, 60, 50, 800)}

InitEndpoint ==
    /\ InitState
    /\ max_history = MaxWindow
    /\ budget = MaxWindow
    /\ max_runs = MaxJobRuns
    /\ draws = {0}
    /\ lines = EndpointLines

SpecEndpoint == InitEndpoint /\ [][NextEndpoint]_vars

\* the subscriber whose sends may stay pending for ever
Slow == CHOOSE w \in WS : \A v \in WS : w <= v

\* the event loop resumes a coroutine whose await has completed; every send
\* completes in the end, except those to the slow subscriber
FairSpec ==
    /\ Spec
    /\ \A t \in Tasks : WF_vars(SendDone(t) /\ frame[t].cur # Slow)
    /\ \A w \in WS \ {Slow} : WF_vars(HandshakeDone(w))
    /\ WF_vars(CleanupFinish)

\* asyncio.sleep(interval) returns; every send completes in the end, except
\* those to the slow subscriber while its channel stays open
FairGenerator ==
    /\ SpecDegraded
    /\ WF_vars(GenTick)
    /\ \A t \in Tasks :
          WF_vars(SendDone(t) /\ (frame[t].cur # Slow \/ chan[Slow] = "closed"))
    /\ \A w \in WS : WF_vars(HandshakeDone(w))

\* the device and the commands without subscribers, and start() and stop()
\* called again from outside
NextReinit ==
    \/ Ingestion
    \/ StreamEof
    \/ Startup
    \/ Stop
    \/ CleanupFinish
    \/ SendCommand
    \/ CommandDone
    \/ Initialize
    \/ GenTick2

InitReinit ==
    /\ InitState
    /\ max_history = MaxCapacity
    /\ budget = MaxEvents
    /\ draws = {0}
    /\ max_runs = MaxJobRuns
    /\ lines = {JsonLine(22, 60, 60, 800), RawLine("bad_utf8")}

SpecReinit == InitReinit /\ [][NextReinit]_vars

\* the restart route next to the scheduler, the read loop and subscribers
NextRestart ==
    \/ Startup
    \/ RestartServices
    \/ SchedulerStopped
    \/ SysHealthJob
    \/ ReadLine
    \/ \E t \in Tasks : SendDone(t)
    \/ \E w \in WS : Connect(w)
    \/ \E w \in WS : HandshakeDone(w)

InitRestart ==
    /\ InitState
    /\ max_history = MaxCapacity
    /\ budget = MaxEvents
    /\ draws = {0}
    /\ max_runs = MaxJobRuns
    /\ lines = {JsonLine(22, 60, 60, 800)}

SpecRestart == InitRestart /\ [][NextRestart]_vars

\* records on, next to and beyond every bound of the schema, with the
\* optional keys given, given as 0 and left out
ReadingLines ==
    { JsonLine(22, 60, 60, 800),
      FullLine(22, 61, 60, 800, <<500>>, <<65>>, <<50>>),
      FullLine(22, 62, 60, 800, <<0>>, <<0>>, <<0>>),
      FullLine(TempMin, HumidityMin, SoilMin, Co2Min, <<1>>, <<1>>, <<1>>),
      FullLine(TempMax, HumidityMax, SoilMax, Co2Max, <<>>, <<PhMax>>, <<>>),
      JsonLine(TempMin - 1, 63, 60, 800),
      JsonLine(TempMax + 1, 63, 60, 800),
      JsonLine(22, HumidityMin - 1, 60, 800),
      JsonLine(22, HumidityMax + 1, 60, 800),
      JsonLine(22, 64, SoilMin - 1, 800),
      JsonLine(22, 64, SoilMax + 1, 800),
      JsonLine(22, 65, 60, Co2Min - 1),
      JsonLine(22, 65, 60, Co2Max + 1),
      FullLine(22, 66, 60, 800, <<LightMin - 5>>, <<>>, <<>>),
      FullLine(22, 67, 60, 800, <<>>, <<PhMin - 1>>, <<>>),
      FullLine(22, 67, 60, 800, <<>>, <<PhMax + 1>>, <<>>),
      FullLine(22, 68, 60, 800, <<>>, <<>>, <<NutrientMin - 1>>) }

\* the pipeline alone, fed by the device and then by the generator
NextReadings ==
    \/ Startup
    \/ ReadLine
    \/ ReadError
    \/ GenTick

InitReadings ==
    /\ InitState
    /\ max_history = MaxCapacity
    /\ budget = MaxReadings
    /\ draws = Draws
    /\ max_runs = MaxJobRuns
    /\ lines = ReadingLines

SpecReadings == InitReadings /\ [][NextReadings]_vars

\* ================================================================ claims
Min(a, b) == IF a <= b THEN a ELSE b

Registered(w) == InList(active_connections, w)

\* a history entry without the timestamp _add_to_history gave it
Values(entry) ==
    [temperature |-> entry.temperature, humidity |-> entry.humidity,
     soil_moisture |-> entry.soil_moisture, co2_level |-> entry.co2_level,
     light_level |-> entry.light_level, ph_level |-> entry.ph_level,
     nutrient_level |-> entry.nutrient_level, seq |-> entry.seq]

\* the elements of s at the positions in I, in increasing position
Restrict(s, I) ==
    [k \in 1..Cardinality(I) |->
        s[CHOOSE i \in I : Cardinality({j \in I : j <= i}) = k]]

\* C1: after n accepted readings the history buffer holds exactly the last
\* min(n, capacity) of them, in arrival order; it never grows past its
\* capacity and the surviving entries are never reordered.
C1_HistoryIsLastAccepted ==
    LET n == Len(accepted)
        k == Min(n, max_history)
    IN  /\ Len(reading_history) = k
        /\ Len(reading_history) <= max_history
        /\ \A i \in 1..k :
              Values(reading_history[i]) = accepted[n - k + i].reading

\* readings were evicted and more than one survives
C1_Witness ==
    /\ Len(accepted) > max_history
    /\ max_history >= 2
    /\ Len(reading_history) = max_history

\* C2: get_history(d) returns exactly the entries that arrived at or after
\* now - d, in buffer order (none when no entry qualifies), and leaves the
\* buffer as it was.
C2_HistoryWindow ==
    [][ query' # query =>
          LET cutoff == now - query'.hours * TicksPerHour
              inside == {i \in 1..Len(reading_history) :
                            accepted[reading_history[i].seq].at >= cutoff}
          IN  /\ query'.result = Restrict(reading_history, inside)
              /\ reading_history' = reading_history ]_vars

\* a query that returned the newer of two buffered entries, the older one
\* being outside the window and the newer one exactly on its boundary
C2_Witness ==
    /\ query.asked
    /\ query.hours = 1
    /\ Len(reading_history) = 2
    /\ query.result = <<reading_history[2]>>
    /\ accepted[reading_history[2].seq].at = query.at - TicksPerHour

\* C3: at every point another task can observe, latest() is none exactly
\* when no reading was accepted, and otherwise carries the values of the
\* last history entry.
C3_LatestAgreesWithHistory ==
    /\ (get_latest_reading = <<>>) <=> (accepted = <<>>)
    /\ (get_latest_reading = <<>>) <=> (reading_history = <<>>)
    /\ get_latest_reading # <<>> =>
          get_latest_reading[1] = Values(reading_history[Len(reading_history)])

\* the second reading was stored while the broadcast of the first is suspended
C3_Witness ==
    /\ Len(accepted) >= 2
    /\ get_latest_reading # <<>>
    /\ \E t \in Tasks : frame[t].st = "send" /\ frame[t].msg.seq < Len(accepted)
                           /\ frame[t].msg.type = "telemetry_update"

\* C4: a reading is in the history (and is the latest reading) before its
\* telemetry_update is sent: every telemetry_update on any channel is for
\* the last buffered entry or an older reading.
C4_StoredBeforePublished ==
    \A w \in WS : \A i \in 1..Len(outbox[w]) :
        outbox[w][i].type = "telemetry_update" =>
            /\ reading_history # <<>>
            /\ outbox[w][i].seq <= reading_history[Len(reading_history)].seq
            /\ get_latest_reading # <<>>
            /\ outbox[w][i].seq <= get_latest_reading[1].seq

\* a subscriber holds the update of the newest reading while its send is
\* still awaited
C4_Witness ==
    \E w \in WS : \E t \in Tasks :
        /\ frame[t].st = "send" /\ frame[t].cur = w
        /\ frame[t].msg.type = "telemetry_update"
        /\ outbox[w] # <<>>
        /\ outbox[w][Len(outbox[w])] = frame[t].msg
        /\ reading_history # <<>>
        /\ reading_history[Len(reading_history)].seq = frame[t].msg.seq
\* the telemetry_update events written to the channel of w, in order
Updates(w) == SelectSeq(outbox[w], LAMBDA m : m.type = "telemetry_update")

\* C5: on every channel the telemetry_update events appear in the order in
\* which their readings were appended to the history, whatever the
\* interleaving of the read loop, the generator, the scheduler jobs and
\* subscribers connecting and disconnecting.
C5_UpdatesInAppendOrder ==
    \A w \in WS : \A i, j \in 1..Len(Updates(w)) :
        i < j => Updates(w)[i].seq < Updates(w)[j].seq

\* task t returns from a broadcast call that was suspended on a send
Returns(t) == frame[t].st = "send" /\ frame'[t].st = "idle"

\* how many copies of message m were written to the channel of w
Copies(ob, w, m) == Cardinality({i \in 1..Len(ob[w]) : ob[w][i] = m})

\* C6: whatever event is published, only handles whose channel has failed
\* leave the registry, and when the call returns every subscriber whose
\* channel worked throughout is still registered and has received the event.
C6_PublishKeepsWorkingSubscribers ==
    [][ /\ \A w \in WS :
              Registered(w) /\ ~InList(active_connections', w)
                  => chan[w] = "closed"
        /\ \A t \in Tasks :
              Returns(t) =>
                  \A w \in frame[t].stable :
                      /\ InList(active_connections', w)
                      /\ Copies(outbox', w, frame[t].msg) >= 1 ]_vars

\* C7: a subscriber registered with a working channel for the whole of a
\* publish call has received the event exactly once when the call returns,
\* whatever happened to the other subscribers while the call was suspended.
C7_StableSubscriberGetsEventOnce ==
    [][ \A t \in Tasks :
            Returns(t) =>
                \A w \in frame[t].stable :
                    Copies(outbox', w, frame[t].msg) = 1 ]_vars

\* C9: the first message on every channel is the connection handshake and it
\* is sent once; a handle is registered only once its handshake send has
\* started; a handle whose handshake send failed is not left registered.
C9_HandshakeFirst ==
    \A w \in WS :
        /\ outbox[w] # <<>> =>
              /\ outbox[w][1] = HandshakeMsg
              /\ Copies(outbox, w, HandshakeMsg) = 1
        /\ Registered(w) => outbox[w] # <<>>
        /\ w \in hs_failed => ~Registered(w)

\* one subscriber got a broadcast event after its handshake, the handshake
\* of another one failed
C9_Witness ==
    /\ \E w \in WS : Len(outbox[w]) >= 2 /\ outbox[w][2].type # "connection"
    /\ hs_failed # {}

\* the registry holds no handle twice and metadata for exactly its handles
NoDuplicates(s) == \A i, j \in 1..Len(s) : s[i] = s[j] => i = j

\* C10: disconnect of a registered handle removes exactly that handle and
\* its metadata, keeping the others in order; disconnect of a handle that
\* is not registered (never was, or was already removed) changes nothing;
\* a second disconnect changes nothing.
C10_DisconnectIdempotent ==
    \A w \in WS :
        LET h == disconnect(Hub, w)
        IN  /\ disconnect(h, w) = h
            /\ ~Registered(w) => h = Hub
            /\ Registered(w) =>
                  /\ h.ac = SelectSeq(active_connections, LAMBDA x : x # w)
                  /\ DOMAIN h.cd = (DOMAIN connection_data) \ {w}
                  /\ \A x \in DOMAIN h.cd : h.cd[x] = connection_data[x]
            /\ DOMAIN h.cd = SetOf(h.ac)
            /\ NoDuplicates(h.ac)

\* the endpoint of a handle called disconnect after the handle had already
\* been removed, while another handle stays registered
C10_Witness ==
    \E w \in WS :
        /\ ep[w] = "gone"
        /\ w \in hs_failed
        /\ \E v \in WS : v # w /\ Registered(v)
\* the events a broadcast call can be suspended with
Events ==
    {Msg("telemetry_update", n, TRUE) : n \in 1..MaxEvents}
        \cup {Msg("system_alert", n, TRUE) : n \in 1..MaxJobRuns}

\* a broadcast of m is in flight and w has been registered with a working
\* channel since it began
Owed(m, w) ==
    \E t \in Tasks : frame[t].st = "send" /\ frame[t].msg = m
                        /\ w \in frame[t].stable

\* C8: a subscriber whose send never completes does not keep the others
\* from being sent the event: every other subscriber registered with a
\* working channel when the event is published is sent it in the end,
\* unless it leaves or its channel fails first.
C8_SlowSubscriberDoesNotBlock ==
    \A m \in Events : \A w \in WS \ {Slow} :
        Owed(m, w) ~> (Copies(outbox, w, m) >= 1
                          \/ ~Registered(w) \/ chan[w] = "closed")

\* subscriber w had a control message handled in this step
Handled(w) == inbound'[w] # inbound[w]

\* a message handle_message is to answer with an 'error' reply
Unanswerable(data) ==
    \/ data.json # "object"
    \/ data.type \notin {"ping", "subscribe"}
    \/ data.type = "subscribe" /\ data.subscription \notin Topics

\* C11: handle_message never raises to websocket_endpoint, whatever the
\* message and whether or not the sender is still registered, and an unknown
\* or invalid message is answered with an 'error' reply to the sender.
C11_HandleMessageNeverRaises ==
    [][ \A w \in WS :
            Handled(w) =>
                LET data == inbound'[w][Len(inbound'[w])]
                IN  /\ ep'[w] # "crashed"
                    /\ Unanswerable(data) =>
                          outbox'[w] = Append(outbox[w], Msg("error", 0, TRUE))
      ]_vars

\* C12: handling a control message of subscriber w, up to the end of its
\* reply, writes to no other channel and leaves the registration and the
\* metadata of every other subscriber as they were.
C12_ControlMessageIsLocal ==
    [][ \A w \in WS :
            (Handled(w) \/ (ep[w] = "reply" /\ ep'[w] = "recv")) =>
                \A v \in WS \ {w} :
                    /\ outbox'[v] = outbox[v]
                    /\ Registered(v) <=> InList(active_connections', v)
                    /\ v \in DOMAIN connection_data
                           <=> v \in DOMAIN connection_data'
                    /\ v \in DOMAIN connection_data =>
                           connection_data'[v] = connection_data[v] ]_vars

\* one subscriber has subscribed and got its confirmation while another one
\* is registered without subscriptions
C12_Witness ==
    \E w \in WS : \E v \in WS \ {w} :
        /\ w \in DOMAIN connection_data
        /\ connection_data[w].subscriptions = <<"telemetry">>
        /\ ep[w] = "recv"
        /\ outbox[w][Len(outbox[w])].type = "subscription_confirmed"
        /\ v \in DOMAIN connection_data
        /\ connection_data[v].subscriptions = <<>>
\* C13: a record that is rejected (not JSON, not an object, a non-numeric
\* field, a field out of range) leaves the history and the latest reading
\* exactly as they were, and nothing is published for it.
C13_RejectedRecordChangesNothing ==
    [][ discarded' # discarded =>
            /\ reading_history' = reading_history
            /\ latest_reading' = latest_reading
            /\ accepted' = accepted
            /\ outbox' = outbox ]_vars

\* a record was discarded after a reading had been stored and published to a
\* subscriber that is still registered
C13_Witness ==
    /\ discarded > 0
    /\ reading_history # <<>>
    /\ is_connected
    /\ \E w \in WS : Registered(w) /\ Updates(w) # <<>>

\* C14: while the device is connected, a line that fails to parse (bad byte
\* encoding, malformed structure, validation failure) neither ends the read
\* loop nor changes the connection state.
C14_BadLineKeepsReadLoop ==
    [][ (discarded' # discarded /\ is_connected) =>
            /\ is_connected'
            /\ pc'["reader"] = "readline" ]_vars
\* C15: when the device connection drops while connected (the read raises,
\* or the stream reaches its end), the pipeline ends up Disconnected with
\* the read loop terminated.
C15_DropLeadsToDisconnected ==
    (stream \in {"eof", "error"})
        ~> (~is_connected /\ pc["reader"] = "done")

\* a command returns in this step
CommandReturns == cmd' # cmd /\ cmd'.st = "idle"

\* C16: a device write failure inside send_actuator_command while connected
\* brings the connection state to Disconnected.
C16_WriteFailureDisconnects ==
    [][ (CommandReturns /\ cmd'.error /\ is_connected) => ~is_connected' ]_vars

\* C19: send_actuator_command returns False and writes nothing whenever the
\* state is not Connected; a command is written only while Connected and
\* True is returned only for a written command; no command step touches
\* the history, the latest reading or the subscribers.
C19_CommandFailsFastWhenNotConnected ==
    [][ cmd' # cmd =>
          /\ (cmd'.n # cmd.n /\ ~is_connected) =>
                /\ cmd'.st = "idle"
                /\ cmd'.result = "false"
                /\ cmd'.written = cmd.written
          /\ cmd'.written # cmd.written =>
                /\ is_connected
                /\ cmd'.n = cmd.n + 1
                /\ cmd'.written = cmd.written + 1
          /\ (CommandReturns /\ cmd'.result = "true") =>
                /\ cmd.st = "drain"
                /\ cmd.written > 0
          /\ reading_history' = reading_history
          /\ latest_reading' = latest_reading
          /\ active_connections' = active_connections
          /\ connection_data' = connection_data ]_vars

\* one command was written and answered True, the next one was refused
\* after the read loop had dropped the connection, the writer still open,
\* with a reading stored and a subscriber registered
C19_Witness ==
    /\ cmd.n = 2
    /\ cmd.written = 1
    /\ cmd.st = "idle"
    /\ cmd.result = "false"
    /\ ~cmd.error
    /\ ~is_connected
    /\ serial_connection = "open"
    /\ reading_history # <<>>
    /\ active_connections # <<>>

\* cleanup is entered in this step, or goes on after wait_closed()
CleanupCalled == stops' # stops
CleanupResumes == cleanup_pc = "closing" /\ cleanup_pc' # "closing"

\* C20: cleanup never raises and never touches the history or the latest
\* reading; when it returns the state is Disconnected and the device
\* connection released; called again, or with no connection ever opened, it
\* leaves the state as it is.
C20_CleanupIdempotent ==
    [][ (CleanupCalled \/ CleanupResumes) =>
          /\ cleanup_pc' # "raised"
          /\ reading_history' = reading_history
          /\ latest_reading' = latest_reading
          /\ cleanup_pc' = "idle" =>
                /\ ~is_connected'
                /\ serial_connection' \in {"None", "closed"}
          /\ (CleanupCalled /\ ~is_connected
                  /\ serial_connection \in {"None", "closed"}) =>
                /\ is_connected' = is_connected
                /\ serial_connection' = serial_connection ]_vars
\* the connection attempt of initialize has failed
FailedStart == lifespan # "startup" /\ serial_connection = "None"

\* a record is accepted or discarded in this step
RecordHandled == accepted' # accepted \/ discarded' # discarded

\* the declared variation of the simulated values
InSimulatedBounds(r) ==
    /\ r.temperature >= SimTempBase - SimTempSpread
    /\ r.temperature <= SimTempBase + SimTempSpread
    /\ r.humidity >= SimHumidityBase - SimHumiditySpread
    /\ r.humidity <= SimHumidityBase + SimHumiditySpread
    /\ r.soil_moisture >= SimSoilBase - SimSoilSpread
    /\ r.soil_moisture <= SimSoilBase + SimSoilSpread
    /\ r.co2_level >= SimCo2Base - SimCo2Spread
    /\ r.co2_level <= SimCo2Base + SimCo2Spread

InValidityRanges(r) ==
    /\ r.temperature >= TempMin /\ r.temperature <= TempMax
    /\ r.humidity >= HumidityMin /\ r.humidity <= HumidityMax
    /\ r.soil_moisture >= SoilMin /\ r.soil_moisture <= SoilMax
    /\ r.co2_level >= Co2Min /\ r.co2_level <= Co2Max

C18_DisconnectedKeepsProducing ==
    /\ [][ (accepted' # accepted /\ accepted'[Len(accepted')].by = "gen")
              => ~is_connected ]_vars
    /\ \A n \in 0..(MaxEvents - 1) :
          (~is_connected /\ pc["gen"] # "none" /\ Len(accepted) = n
                /\ BudgetLeft)
             ~> (Len(accepted) > n \/ ~BudgetLeft)
\* the alerts of a list with this severity and category
Matching(alerts, type, category) ==
    {i \in 1..Len(alerts) :
        alerts[i].type = type /\ alerts[i].category = category}

\* exactly one such alert when the rule holds, and none when it does not
OneIff(alerts, type, category, rule) ==
    Cardinality(Matching(alerts, type, category)) = IF rule THEN 1 ELSE 0

\* the executions of the alert check that found a reading
RuleRuns ==
    {i \in 1..Len(job_log) :
        job_log[i].job = "alert_check" /\ job_log[i].reading # <<>>}

\* C27: for every valid reading the alert list is exactly one critical
\* temperature alert iff the temperature is below 15 or above 35, one warning
\* humidity alert iff the humidity is below 25 or above 85, one critical
\* watering alert iff the soil moisture is below 0.2, one warning watering
\* alert iff it is above 0.9, one info air_quality alert iff the co2 level is
\* below 300, and nothing else; each alert carries the offending value, the
\* same reading gives the same list, and the reading (12, 60, 0.6, 800) gives
\* exactly one critical temperature alert.
C27_AlertRulesExact ==
    \A i \in RuleRuns :
        LET r == job_log[i].reading[1]
            alerts == job_log[i].alerts
        IN  /\ OneIff(alerts, "critical", "temperature",
                      r.temperature < 15 \/ r.temperature > 35)
            /\ OneIff(alerts, "warning", "humidity",
                      r.humidity < 25 \/ r.humidity > 85)
            /\ OneIff(alerts, "critical", "watering", r.soil_moisture < 20)
            /\ OneIff(alerts, "warning", "watering", r.soil_moisture > 90)
            /\ OneIff(alerts, "info", "air_quality", r.co2_level < 300)
            /\ Len(alerts) =
                   Cardinality(Matching(alerts, "critical", "temperature")
                       \cup Matching(alerts, "warning", "humidity")
                       \cup Matching(alerts, "critical", "watering")
                       \cup Matching(alerts, "warning", "watering")
                       \cup Matching(alerts, "info", "air_quality"))
            /\ \A k \in 1..Len(alerts) :
                  alerts[k].value =
                      CASE alerts[k].category = "temperature" -> r.temperature
                        [] alerts[k].category = "humidity" -> r.humidity
                        [] alerts[k].category = "watering" -> r.soil_moisture
                        [] OTHER -> r.co2_level
            /\ \A j \in RuleRuns :
                  job_log[j].reading = job_log[i].reading
                      => job_log[j].alerts = alerts
            /\ (r.temperature = 12 /\ r.humidity = 60 /\ r.soil_moisture = 60
                    /\ r.co2_level = 800)
                  => alerts = <<Alert("critical", "Critical Low Temperature",
                                      "temperature", 12)>>

\* the rules have run twice on the reading (12, 60, 0.6, 800)
C27_Witness ==
    \E i, j \in RuleRuns :
        /\ i < j
        /\ job_log[i].reading[1].temperature = 12
        /\ job_log[i].reading[1].humidity = 60
        /\ job_log[i].reading[1].soil_moisture = 60
        /\ job_log[i].reading[1].co2_level = 800
        /\ Len(job_log[j].alerts) = 1
\* the registered jobs are the five named jobs, each once
FiveJobs ==
    /\ Len(scheduler.jobs) = 5
    /\ SetOf(scheduler.jobs) =
           {"health_analysis", "alert_check", "data_cleanup",
            "predictive_analysis", "system_health"}

\* start() is called in this step
StartCalled == calls'.start # calls.start

\* C21: start() when already running changes nothing, and after any number
\* of start() calls is_running is true and the registered jobs are exactly
\* the five named jobs, each once.
C21_StartIdempotent ==
    /\ [](is_running => scheduler.running /\ FiveJobs)
    /\ [][ StartCalled => is_running' /\ scheduler'.running ]_vars
    /\ [][ (StartCalled /\ is_running) =>
              UNCHANGED <<is_running, scheduler, pc, frame, job_runs, job_log,
                          hubVars, sensorVars, deviceVars, now>> ]_vars

\* start() has been called three times around one shutdown, so once at
\* least while running, and the scheduler runs
C21_Witness ==
    /\ calls.start = 3
    /\ calls.shutdown = 1
    /\ is_running
    /\ ~scheduler.stopping
    /\ job_runs > 0
\* the events the scheduler jobs publish
JobEvents ==
    {"health_analysis", "emergency_alert", "new_alerts", "prediction_update",
     "predictive_alert", "system_alert"}

\* a subscriber is sent an event of a scheduler job in this step
JobPublishes ==
    \E w \in WS :
        /\ Len(outbox'[w]) > Len(outbox[w])
        /\ outbox'[w][Len(outbox'[w])].type \in JobEvents

\* C22: shutdown() leaves is_running false in every state; from its return
\* until start() is called again no job fires and no job publishes an event;
\* the next start() enables exactly the five jobs again.
C22_ShutdownStopsJobs ==
    /\ [][ calls'.shutdown # calls.shutdown => ~is_running' ]_vars
    /\ [][ (~is_running /\ ~is_running' /\ calls.shutdown > 0) =>
              job_runs' = job_runs /\ ~JobPublishes ]_vars
    /\ [][ (StartCalled /\ calls.shutdown > 0) =>
              is_running' /\ FiveJobs' ]_vars
\* an execution of a job ends with an error in this step
JobFails ==
    /\ Len(job_log') = Len(job_log) + 1
    /\ job_log'[Len(job_log')].failed

\* some execution has ended with an error
SomeJobFailed == \E i \in 1..Len(job_log) : job_log[i].failed

\* C23: a failure inside an execution of a job stays inside it: the step
\* changes neither the scheduler nor any other coroutine nor the hub, the
\* scheduler stays running with its five jobs, and every job, the failed one
\* included, is still due to fire.
C23_JobFailureIsIsolated ==
    /\ [][ JobFails =>
              UNCHANGED <<is_running, scheduler, pc, frame, hubVars,
                          sensorVars>> ]_vars
    /\ [](SomeJobFailed =>
            /\ is_running
            /\ scheduler.running
            /\ FiveJobs
            /\ \A i \in 1..5 : Fires(JobIds[i]))

\* the health analysis has failed, has then run again, and the alert check
\* has run after the failure
C23_Witness ==
    /\ Len(job_log) = 3
    /\ job_log[1].job = "health_analysis"
    /\ job_log[1].failed
    /\ \E i, j \in 2..3 :
          /\ job_log[i].job = "health_analysis"
          /\ ~job_log[i].failed
          /\ job_log[j].job = "alert_check"
          /\ job_log[j].events = <<"new_alerts">>

\* C24: whenever an execution of a job fails with an error, a system_error
\* event is published to the subscribers.
C24_JobFailurePublishesSystemError ==
    [][ (JobFails /\ active_connections # <<>>) =>
           \E t \in JobTasks : frame'[t].msg.type = "system_error"
              \/ \E w \in WS :
                    /\ Len(outbox'[w]) > Len(outbox[w])
                    /\ outbox'[w][Len(outbox'[w])].type = "system_error" ]_vars
\* the health analysis runs in this step, and its scoring returns
HealthRuns ==
    /\ Len(job_log') = Len(job_log) + 1
    /\ job_log'[Len(job_log')].job = "health_analysis"
    /\ ~job_log'[Len(job_log')].failed

\* the events of this type and execution on the channel of w
Received(ob, w, type, n) ==
    {i \in 1..Len(ob[w]) : ob[w][i].type = type /\ ob[w][i].seq = n}

\* C25: when the health analysis fires with a latest reading, every
\* registered subscriber with a working channel receives exactly one
\* health_analysis event and is still registered afterwards; with no reading
\* the job publishes nothing.
C25_HealthAnalysisReachesSubscribers ==
    [][ HealthRuns =>
          IF latest_reading = <<>>
          THEN outbox' = outbox
          ELSE \A w \in SetOf(active_connections) :
                  chan[w] = "open" =>
                     /\ Registered(w)'
                     /\ Cardinality(Received(outbox', w, "health_analysis",
                                             job_runs')) = 1 ]_vars
\* the executions of the health analysis that scored a reading
ScoredRuns ==
    {i \in 1..Len(job_log) :
        /\ job_log[i].job = "health_analysis"
        /\ ~job_log[i].failed
        /\ job_log[i].events # <<>>}

\* C26: an execution of the health analysis publishes an emergency_alert
\* exactly when its health score is below 40, and publishes it after the
\* health_analysis event.
C26_EmergencyIffBelowThreshold ==
    \A i \in ScoredRuns :
        /\ job_log[i].events[1] = "health_analysis"
        /\ job_log[i].score < 40 =>
              job_log[i].events = <<"health_analysis", "emergency_alert">>
        /\ job_log[i].score >= 40 =>
              job_log[i].events = <<"health_analysis">>

\* the executions of the alert check
AlertRuns == {i \in 1..Len(job_log) : job_log[i].job = "alert_check"}

\* how many of the alert rules hold of a reading
RulesFired(r) ==
    (IF r.temperature < 15 \/ r.temperature > 35 THEN 1 ELSE 0)
        + (IF r.humidity < 25 \/ r.humidity > 85 THEN 1 ELSE 0)
        + (IF r.soil_moisture < 20 \/ r.soil_moisture > 90 THEN 1 ELSE 0)
        + (IF r.co2_level < 300 THEN 1 ELSE 0)

PredictRuns ==
    {i \in 1..Len(job_log) :
        /\ job_log[i].job = "predictive_analysis"
        /\ ~job_log[i].failed
        /\ pc["predictive_analysis"] = "idle"
        /\ frame["predictive_analysis"].st = "idle"}

\* how many events of a type an execution published
Published(run, type) ==
    Cardinality({k \in 1..Len(run.events) : run.events[k] = type})

\* C29: every execution of the predictive analysis publishes one
\* prediction_update, whatever the size of the window (a window of fewer than
\* 5 readings gives the insufficient-data forecast, which names a risk); it
\* publishes a predictive_alert, after the prediction_update, exactly when
\* the forecast has a risk factor.
C29_PredictionPublishedForEveryWindow ==
    \A i \in PredictRuns :
        LET run == job_log[i]
            risks == IF run.window < 5 THEN TRUE ELSE run.risks
        IN  /\ Published(run, "prediction_update") = 1
            /\ run.events[1] = "prediction_update"
            /\ Published(run, "predictive_alert") = IF risks THEN 1 ELSE 0

\* the data-retention job runs to its end in this step
CleanupRuns ==
    /\ Len(job_log') = Len(job_log) + 1
    /\ job_log'[Len(job_log')].job = "data_cleanup"

\* C30: when an execution of the data-retention job is over, the history
\* holds no entry older than the retention horizon of 30 days, and it holds
\* the entries within the horizon in the order they had.
C30_CleanupPurgesOldEntries ==
    [][ CleanupRuns =>
          reading_history' = get_history(reading_history, 24 * 30, now) ]_vars

\* C31: on every window of fewer than 5 readings, the empty one included,
\* and for every horizon, the forecast returns without raising, with
\* prediction_type insufficient_data, confidence 0.0, no predicted values and
\* a recommendation that says why.
C31_ShortWindowIsInsufficientData ==
    (forecast.asked /\ Len(forecast.historical_data) < 5) =>
        /\ forecast.status = "ok"
        /\ Len(forecast.result) = 1
        /\ forecast.result[1].prediction_type = "insufficient_data"
        /\ forecast.result[1].confidence = 0
        /\ forecast.result[1].predicted_values = <<>>
        /\ forecast.result[1].forecast_hours = forecast.hours_ahead
        /\ forecast.result[1].recommendations =
               <<"Collect more sensor data for accurate predictions">>

\* the forecast was asked on four readings with a horizon beyond every cap
C31_Witness ==
    /\ forecast.asked
    /\ Len(forecast.historical_data) = 4
    /\ forecast.hours_ahead > 72
    /\ forecast.result[1].prediction_type = "insufficient_data"

\* the forecast was asked on a window long enough for a trend
TrendAsked == forecast.asked /\ Len(forecast.historical_data) >= 5

\* the values of one field over the window of the forecast
Column(field) ==
    [i \in 1..Len(forecast.historical_data) |->
        forecast.historical_data[i][field]]

\* num / den is the least-squares slope of the values against their index:
\* the residuals of the fitted line are orthogonal to the index
LeastSquares(values, num, den) ==
    LET n == Len(values)
        total == Sum(values, n)
        xs == Sum([i \in 1..n |-> i - 1], n)
    IN  Sum([i \in 1..n |->
                (i - 1) * (n * den * values[i] - den * total + num * xs
                               - n * num * (i - 1))], n) = 0

\* p hundredths is last + slope * horizon to two decimals, for values in
\* 1 / unit hundredths
ToTwoDecimals(p, values, unit) ==
    LET t == Slope(values)
        exact == unit * (values[Len(values)] * t.den
                            + t.num * forecast.hours_ahead)
        diff == 2 * (p * t.den - exact)
    IN  /\ LeastSquares(values, t.num, t.den)
        /\ diff <= t.den
        /\ -diff <= t.den

\* the risk factors and recommendations of the answer are these
RisksAre(hot, cold, dry) ==
    LET r == forecast.result[1]
    IN  /\ r.risk_factors =
               (IF hot THEN <<"Temperature trending too high">>
                ELSE IF cold THEN <<"Temperature trending too low">>
                ELSE <<>>)
                   \o (IF dry THEN <<"Soil moisture decreasing rapidly">>
                       ELSE <<>>)
        /\ Len(r.recommendations) = Len(r.risk_factors)
        /\ dry => r.recommendations[Len(r.recommendations)]
                      = "Schedule watering"
        /\ ~(hot /\ cold)

Indicator(condition) == IF condition THEN 1 ELSE 0

\* C33: for every valid reading and every stress-indicator list the disease
\* probability is min(1.0, 0.3 [humidity > 70 and temperature > 25]
\* + 0.2 [humidity > 75 and co2 > 1200] + 0.1 x number of stress indicators
\* + 0.2 [soil moisture > 0.8]), and so lies in [0, 1] (here in tenths).
C33_DiseaseProbabilityFormula ==
    analysis.asked =>
        LET r == analysis.telemetry[1]
            sum == 3 * Indicator(r.humidity > 70 /\ r.temperature > 25)
                     + 2 * Indicator(r.humidity > 75 /\ r.co2_level > 1200)
                     + Len(analysis.stress_indicators)
                     + 2 * Indicator(r.soil_moisture > 80)
        IN  /\ analysis.disease_probability = Min(10, sum)
            /\ analysis.disease_probability >= 0
            /\ analysis.disease_probability <= 10

\* a hot, humid, waterlogged, stale reading with its five detected stress
\* indicators: the sum 1.2 is cut to 1.0
C33_Witness ==
    /\ analysis.asked
    /\ Len(analysis.stress_indicators) = 5
    /\ analysis.stress_indicators[1] = "Heat stress - temperature too high"
    /\ analysis.telemetry[1].humidity = 81
    /\ analysis.telemetry[1].soil_moisture = 91
    /\ analysis.telemetry[1].co2_level = 1501
    /\ analysis.disease_probability = 10

\* C34: the forecast entry point answers every horizon that is not positive
\* and every horizon above 72 hours with a failure, without asking the
\* engine; the engine is only ever asked with a horizon in 1..72.
C34_HorizonOutsideRangeIsRejected ==
    forecast.asked =>
        /\ (forecast.hours_ahead <= 0 \/ forecast.hours_ahead > 72) =>
               (forecast.status # "ok" /\ forecast.result = <<>>)
        /\ forecast.result # <<>> => forecast.hours_ahead \in 1..72

\* the published types the hub knows
RecognizedTypes ==
    {"telemetry_update", "health_analysis", "new_alerts", "prediction_update",
     "predictive_alert", "system_alert", "emergency_alert", "system_error",
     "system_restarted", "connection", "pong", "subscription_confirmed",
     "error"}

\* C35: every message written to a subscriber's channel, broadcast event or
\* reply to that subscriber alone, has the fields type, data and timestamp,
\* and its type is one of the recognized published types.
C35_EveryMessageHasEnvelope ==
    \A w \in WS :
        \A i \in 1..Len(outbox[w]) :
            /\ {"type", "data", "timestamp"} \subseteq
                   Envelope(outbox[w][i].type)
            /\ outbox[w][i].type \in RecognizedTypes

\* the ranges of a reading: temperature -50..100, humidity 0..100, soil
\* moisture 0..1, co2 0..5000, light not negative, pH 0..14, nutrients not
\* negative, the last three possibly absent
WithinRanges(r) ==
    /\ r.temperature >= -50 /\ r.temperature <= 100
    /\ r.humidity >= 0 /\ r.humidity <= 100
    /\ r.soil_moisture >= 0 /\ r.soil_moisture <= 100
    /\ r.co2_level >= 0 /\ r.co2_level <= 5000
    /\ r.light_level = <<>> \/ r.light_level[1] >= 0
    /\ r.ph_level = <<>> \/ (r.ph_level[1] >= 0 /\ r.ph_level[1] <= 140)
    /\ r.nutrient_level = <<>> \/ r.nutrient_level[1] >= 0

\* the reading a record stands for, value by value
AsDelivered(line, n) ==
    [temperature |-> line.temp, humidity |-> line.humidity,
     soil_moisture |-> line.soil, co2_level |-> line.co2,
     light_level |-> IF line.light = <<0>> THEN <<>> ELSE line.light,
     ph_level |-> IF line.ph = <<0>> THEN <<>> ELSE line.ph,
     nutrient_level |-> IF line.nutrients = <<0>> THEN <<>>
                        ELSE line.nutrients,
     seq |-> n]

\* r holds the values of a record that was delivered within the ranges
DeliveredInRange(r) ==
    \E line \in lines \cup _generate_simulated_data :
        /\ line.kind = "json"
        /\ r = AsDelivered(line, r.seq)
        /\ WithinRanges(r)

InitializeStep ==
    \E g \in {"gen", "gen2"} : pc[g] = "none" /\ pc'[g] = "sleep"

\* C37: the pipeline never reconnects on its own: the state goes from
\* Disconnected to Connected only in a step in which initialize() is invoked
\* from outside; the read loop, the collection loops, a command and
\* cleanup never set it to Connected.
C37_NoReconnectWithoutInitialize ==
    [][(~is_connected /\ is_connected') => InitializeStep]_vars

\* the connection was lost after a reading had arrived over it, a
\* collection loop has produced a reading since, initialize() has not been
\* invoked again, and the state is Disconnected
C37_Witness ==
    /\ ~is_connected
    /\ pc["gen2"] = "none"
    /\ \E i, j \in 1..Len(accepted) :
          /\ i < j
          /\ accepted[i].connected
          /\ accepted[i].by = "reader"
          /\ ~accepted[j].connected
          /\ accepted[j].by = "gen"

\* C38: whatever the sequence of initialize() and cleanup() calls, at most
\* one collection loop is active.
C38_AtMostOneCollectionLoop ==
    ~(pc["gen"] # "none" /\ pc["gen2"] # "none")

\* C39: the restart operation always ends with the scheduler running again
\* with its five jobs; it never leaves the scheduler stopped.
C39_RestartEndsWithSchedulerRunning ==
    pc["restart"] = "done" =>
        /\ is_running
        /\ scheduler.running
        /\ ~scheduler.stopping
        /\ Len(scheduler.jobs) = 5

\* C40: in every state of the hub the handles with metadata are exactly the
\* registered handles, no handle is registered twice, every subscription
\* list holds topics among telemetry, alerts and analysis only and none of
\* them twice, and the connection count is the number of registered handles.
C40_HubRegistryConsistent ==
    /\ DOMAIN connection_data = SetOf(active_connections)
    /\ NoDuplicates(active_connections)
    /\ \A w \in DOMAIN connection_data :
          /\ SetOf(connection_data[w].subscriptions) \subseteq
                 {"telemetry", "alerts", "analysis"}
          /\ NoDuplicates(connection_data[w].subscriptions)
    /\ get_connection_count = Cardinality(SetOf(active_connections))

\* a registered subscriber has subscribed to telemetry twice and holds the
\* topic once, while another handle has come and been removed
C40_Witness ==
    \E w \in WS : \E v \in WS \ {w} :
        /\ Registered(w)
        /\ Len(inbound[w]) = 2
        /\ \A i \in 1..2 : /\ inbound[w][i].type = "subscribe"
                            /\ inbound[w][i].subscription = "telemetry"
        /\ connection_data[w].subscriptions = <<"telemetry">>
        /\ ep[v] # "new"
        /\ ~Registered(v)

====
